---- MODULE Spec2Model ----
(***************************************************************************)
(* A model of the gitignore matcher of git-pkgs/gitignore.                 *)
(*                                                                         *)
(* A Go string is a sequence of one-byte strings (<<"*", ".", "c">> is     *)
(* "*.c"), a []string is a sequence of such sequences.  Indices in the     *)
(* loops are the 0-based indices of the Go code; element i of a Go slice s *)
(* is s[i + 1] here.  Each Go loop is a RECURSIVE operator whose           *)
(* parameters are the loop's variables.                                    *)
(***************************************************************************)
EXTENDS Integers, Sequences, FiniteSets, TLC

(***************************************************************************)
(* Bytes.  Ord gives the byte value of the bytes the model uses; bracket   *)
(* ranges and POSIX classes compare byte values.  Ascii[i] is byte 31 + i;  *)
(* the entry of byte 96 (the grave accent, which no input uses) is empty.  *)
(***************************************************************************)
Ascii ==
    <<" ", "!", "\"", "#", "$", "%", "&", "'", "(", ")", "*", "+", ",", "-",
      ".", "/", "0", "1", "2", "3", "4", "5", "6", "7", "8", "9", ":", ";",
      "<", "=", ">", "?", "@", "A", "B", "C", "D", "E", "F", "G", "H", "I",
      "J", "K", "L", "M", "N", "O", "P", "Q", "R", "S", "T", "U", "V", "W",
      "X", "Y", "Z", "[", "\\", "]", "^", "_", "", "a", "b", "c", "d", "e",
      "f", "g", "h", "i", "j", "k", "l", "m", "n", "o", "p", "q", "r", "s",
      "t", "u", "v", "w", "x", "y", "z", "{", "|", "}", "~">>

Ord(c) ==
    CASE c = "\t" -> 9
      [] c = "\n" -> 10
      [] c = "\r" -> 13
      [] OTHER -> 31 + (CHOOSE i \in 1..Len(Ascii) : Ascii[i] = c)

(***************************************************************************)
(* The library functions the code calls (package strings, bufio).          *)
(***************************************************************************)
\* s[lo:hi]
Slice(s, lo, hi) == SubSeq(s, lo + 1, hi)

HasPrefix(s, pre) ==
    /\ Len(s) >= Len(pre)
    /\ SubSeq(s, 1, Len(pre)) = pre

HasSuffix(s, suf) ==
    /\ Len(s) >= Len(suf)
    /\ SubSeq(s, Len(s) - Len(suf) + 1, Len(s)) = suf

\* strings.Split(s, "/"): n separators give n + 1 pieces, empty ones kept.
RECURSIVE SplitLoop(_, _, _, _)
SplitLoop(s, i, cur, acc) ==
    IF i > Len(s) THEN Append(acc, cur)
    ELSE IF s[i] = "/" THEN SplitLoop(s, i + 1, <<>>, Append(acc, cur))
    ELSE SplitLoop(s, i + 1, Append(cur, s[i]), acc)

Split(s) == SplitLoop(s, 1, <<>>, <<>>)

\* The element of a one-element set.  In Only({e : x \in {v}}) the value v is
\* computed once and e reads it as x, however often e mentions it.
Only(S) == CHOOSE x \in S : TRUE

\* strings.LastIndex(s, "*"), 0-based, -1 when absent.
RECURSIVE LastIndexStar(_, _)
LastIndexStar(s, i) ==
    IF i < 0 THEN -1
    ELSE IF s[i + 1] = "*" THEN i
    ELSE LastIndexStar(s, i - 1)

\* bufio.ScanLines: one token per "\n"-terminated line, a final unterminated
\* non-empty line included, one trailing "\r" of a line dropped.
DropCR(l) ==
    IF Len(l) > 0 /\ l[Len(l)] = "\r" THEN SubSeq(l, 1, Len(l) - 1) ELSE l

RECURSIVE ScanLoop(_, _, _, _)
ScanLoop(data, i, cur, acc) ==
    IF i > Len(data)
    THEN IF cur = <<>> THEN acc ELSE Append(acc, DropCR(cur))
    ELSE IF data[i] = "\n"
         THEN ScanLoop(data, i + 1, <<>>, Append(acc, DropCR(cur)))
         ELSE ScanLoop(data, i + 1, Append(cur, data[i]), acc)

\* The scanner that does not hand over empty lines.
ScanLines_SkipEmpty(data) ==
    SelectSeq(ScanLoop(data, 1, <<>>, <<>>), LAMBDA l : l # <<>>)

ScanLines(data) == ScanLoop(data, 1, <<>>, <<>>)

(***************************************************************************)
(* wildmatch.go                                                            *)
(***************************************************************************)
IsLower(ch) == Ord(ch) >= Ord("a") /\ Ord(ch) <= Ord("z")
IsUpper(ch) == Ord(ch) >= Ord("A") /\ Ord(ch) <= Ord("Z")
IsDigit(ch) == Ord(ch) >= Ord("0") /\ Ord(ch) <= Ord("9")

ClassAlnum  == <<"a", "l", "n", "u", "m">>
ClassAlpha  == <<"a", "l", "p", "h", "a">>
ClassBlank  == <<"b", "l", "a", "n", "k">>
ClassCntrl  == <<"c", "n", "t", "r", "l">>
ClassDigit  == <<"d", "i", "g", "i", "t">>
ClassGraph  == <<"g", "r", "a", "p", "h">>
ClassLower  == <<"l", "o", "w", "e", "r">>
ClassPrint  == <<"p", "r", "i", "n", "t">>
ClassPunct  == <<"p", "u", "n", "c", "t">>
ClassSpace  == <<"s", "p", "a", "c", "e">>
ClassUpper  == <<"u", "p", "p", "e", "r">>
ClassXdigit == <<"x", "d", "i", "g", "i", "t">>

matchPosixClass(name, ch) ==
    CASE name = ClassAlnum -> IsLower(ch) \/ IsUpper(ch) \/ IsDigit(ch)
      [] name = ClassAlpha -> IsLower(ch) \/ IsUpper(ch)
      [] name = ClassBlank -> ch = " " \/ ch = "\t"
      [] name = ClassCntrl -> Ord(ch) < 32 \/ Ord(ch) = 127
      [] name = ClassDigit -> IsDigit(ch)
      [] name = ClassGraph -> Ord(ch) > 32 /\ Ord(ch) < 127
      [] name = ClassLower -> IsLower(ch)
      [] name = ClassPrint -> Ord(ch) >= 32 /\ Ord(ch) < 127
      [] name = ClassPunct ->
            /\ Ord(ch) > 32 /\ Ord(ch) < 127
            /\ ~IsLower(ch) /\ ~IsUpper(ch) /\ ~IsDigit(ch)
      [] name = ClassSpace ->
            ch = " " \/ ch = "\t" \/ ch = "\n" \/ ch = "\r" \/ ch = "\f"
      [] name = ClassUpper -> IsUpper(ch)
      [] name = ClassXdigit ->
            \/ IsDigit(ch)
            \/ Ord(ch) >= Ord("a") /\ Ord(ch) <= Ord("f")
            \/ Ord(ch) >= Ord("A") /\ Ord(ch) <= Ord("F")
      [] OTHER -> FALSE

\* The position of ':' in ":]" at or after startPos, -1 if there is none.
RECURSIVE findPosixClassEnd(_, _)
findPosixClassEnd(glob, startPos) ==
    IF ~(startPos + 1 < Len(glob)) THEN -1
    ELSE IF glob[startPos + 1] = ":" /\ glob[startPos + 2] = "]" THEN startPos
    ELSE findPosixClassEnd(glob, startPos + 1)

\* The loop of matchBracket, from cursor i.
RECURSIVE matchBracketLoop(_, _, _, _, _, _)
matchBracketLoop(glob, ch, negate, i, matched, first) ==
    IF ~(i < Len(glob)) THEN [matched |-> FALSE, pos |-> 0, ok |-> FALSE]
    ELSE IF glob[i + 1] = "]" /\ ~first
    THEN [matched |-> IF negate THEN ~matched ELSE matched,
          pos |-> i + 1, ok |-> TRUE]
    ELSE
      LET end == IF glob[i + 1] = "[" /\ i + 1 < Len(glob) /\ glob[i + 2] = ":"
                 THEN findPosixClassEnd(glob, i + 2) ELSE -1
      IN IF end >= 0
         THEN matchBracketLoop(glob, ch, negate, end + 2,
                  matched \/ matchPosixClass(Slice(glob, i + 2, end), ch), FALSE)
         ELSE
           LET esc == glob[i + 1] = "\\" /\ i + 1 < Len(glob)
               lo  == IF esc THEN glob[i + 2] ELSE glob[i + 1]
               i1  == IF esc THEN i + 2 ELSE i + 1
               rng == i1 + 1 < Len(glob) /\ glob[i1 + 1] = "-" /\ glob[i1 + 2] # "]"
               i2  == i1 + 1
               hesc == glob[i2 + 1] = "\\" /\ i2 + 1 < Len(glob)
               hi  == IF hesc THEN glob[i2 + 2] ELSE glob[i2 + 1]
               i3  == IF hesc THEN i2 + 2 ELSE i2 + 1
           IN IF rng
              THEN matchBracketLoop(glob, ch, negate, i3,
                       matched \/ (Ord(ch) >= Ord(lo) /\ Ord(ch) <= Ord(hi)), FALSE)
              ELSE matchBracketLoop(glob, ch, negate, i1,
                       matched \/ ch = lo, FALSE)

matchBracket(glob, pos, ch) ==
    LET i == pos + 1
    IN IF i >= Len(glob) THEN [matched |-> FALSE, pos |-> 0, ok |-> FALSE]
       ELSE LET negate == glob[i + 1] = "!" \/ glob[i + 1] = "^"
            IN matchBracketLoop(glob, ch, negate,
                                IF negate THEN i + 1 ELSE i, FALSE, TRUE)

\* The trailing loop left out: the '*' left in the glob are not skipped.
SkipStars_None(glob, gx) == gx

\* The trailing loop of matchSegment: skip the '*' left in the glob.
RECURSIVE SkipStars(_, _)
SkipStars(glob, gx) ==
    IF gx < Len(glob) /\ glob[gx + 1] = "*" THEN SkipStars(glob, gx + 1) ELSE gx

\* The switch of matchSegment at glob[gx] and text[tx]: the step it takes,
\* or "mismatch" when it falls through to the backtrack.
SegmentSwitch(glob, text, gx, tx) ==
    LET ch == glob[gx + 1]
        t  == text[tx + 1]
        br == matchBracket(glob, gx, t)
    IN IF ~(gx < Len(glob)) THEN [k |-> "mismatch"]
       ELSE IF ch = "\\" /\ gx + 1 < Len(glob)
       THEN IF t = glob[gx + 2]
            THEN [k |-> "go", gx |-> gx + 2, tx |-> tx + 1]
            ELSE [k |-> "mismatch"]
       ELSE IF ch = "?" THEN [k |-> "go", gx |-> gx + 1, tx |-> tx + 1]
       ELSE IF ch = "*" THEN [k |-> "star"]
       ELSE IF ch = "["
       THEN IF br.ok /\ br.matched
            THEN [k |-> "go", gx |-> br.pos, tx |-> tx + 1]
            ELSE IF ~br.ok /\ t = "["
            THEN [k |-> "go", gx |-> gx + 1, tx |-> tx + 1]
            ELSE [k |-> "mismatch"]
       ELSE IF t = ch THEN [k |-> "go", gx |-> gx + 1, tx |-> tx + 1]
       ELSE [k |-> "mismatch"]

RECURSIVE matchSegmentLoop(_, _, _, _, _, _)
matchSegmentLoop(glob, text, gx, tx, starGx, starTx) ==
    IF ~(tx < Len(text)) THEN SkipStars(glob, gx) = Len(glob)
    ELSE
      LET step == SegmentSwitch(glob, text, gx, tx)
      IN CASE step.k = "go" ->
                matchSegmentLoop(glob, text, step.gx, step.tx, starGx, starTx)
           [] step.k = "star" ->
                matchSegmentLoop(glob, text, gx + 1, tx, gx, tx)
           [] OTHER ->
                IF starGx >= 0
                THEN matchSegmentLoop(glob, text, starGx + 1, starTx + 1,
                                      starGx, starTx + 1)
                ELSE FALSE

matchSegment(glob, text) == matchSegmentLoop(glob, text, 0, 0, -1, -1)

\* The trailing loop of matchSegments: what is left must all be **.
RECURSIVE RestAllDoubleStar(_, _)
RestAllDoubleStar(patSegs, px) ==
    IF ~(px < Len(patSegs)) THEN TRUE
    ELSE IF ~patSegs[px + 1].doubleStar THEN FALSE
    ELSE RestAllDoubleStar(patSegs, px + 1)

RECURSIVE matchSegmentsLoop(_, _, _, _, _, _)
matchSegmentsLoop(patSegs, pathSegs, px, tx, starPx, starTx) ==
    IF ~(tx < Len(pathSegs)) THEN RestAllDoubleStar(patSegs, px)
    ELSE IF px < Len(patSegs) /\ patSegs[px + 1].doubleStar
    THEN matchSegmentsLoop(patSegs, pathSegs, px + 1, tx, px, tx)
    ELSE IF /\ px < Len(patSegs)
            /\ ~patSegs[px + 1].doubleStar
            /\ matchSegment(patSegs[px + 1].raw, pathSegs[tx + 1])
    THEN matchSegmentsLoop(patSegs, pathSegs, px + 1, tx + 1, starPx, starTx)
    ELSE IF starPx >= 0
    THEN matchSegmentsLoop(patSegs, pathSegs, starPx + 1, starTx + 1,
                           starPx, starTx + 1)
    ELSE FALSE

\* The walk without a backtrack point: the first mismatch is final.
RECURSIVE NoBacktrackLoop(_, _, _, _)
NoBacktrackLoop(patSegs, pathSegs, px, tx) ==
    IF ~(tx < Len(pathSegs)) THEN RestAllDoubleStar(patSegs, px)
    ELSE IF px < Len(patSegs) /\ patSegs[px + 1].doubleStar
    THEN NoBacktrackLoop(patSegs, pathSegs, px + 1, tx)
    ELSE IF /\ px < Len(patSegs)
            /\ ~patSegs[px + 1].doubleStar
            /\ matchSegment(patSegs[px + 1].raw, pathSegs[tx + 1])
    THEN NoBacktrackLoop(patSegs, pathSegs, px + 1, tx + 1)
    ELSE FALSE

matchSegments_NoBacktrack(patSegs, pathSegs) ==
    NoBacktrackLoop(patSegs, pathSegs, 0, 0)

matchSegments(patSegs, pathSegs) ==
    matchSegmentsLoop(patSegs, pathSegs, 0, 0, -1, -1)

(***************************************************************************)
(* The pattern compiler.                                                   *)
(***************************************************************************)
DoubleStarSeg == [doubleStar |-> TRUE, raw |-> <<>>]
LiteralSeg(raw) == [doubleStar |-> FALSE, raw |-> raw]

\* pattern{}: the zero value of the struct.
ZeroPattern ==
    [segments |-> <<>>, negate |-> FALSE, dirOnly |-> FALSE,
     hasConcrete |-> FALSE, anchored |-> FALSE, prefix |-> <<>>,
     text |-> <<>>, source |-> <<>>, line |-> 0, literalSuffix |-> <<>>]

\* An error message is a sequence of pieces whose concatenation is the
\* message; the empty sequence is the empty message.
MsgEmptyPattern == <<"empty pattern">>
MsgUnknownClass(name) == <<"unknown POSIX class [:">> \o name \o <<":]">>

\* validPosixClassName accepting every name.
validPosixClassName_Any(name) == TRUE

validPosixClassName(name) ==
    name \in {ClassAlnum, ClassAlpha, ClassBlank, ClassCntrl, ClassDigit,
              ClassGraph, ClassLower, ClassPrint, ClassPunct, ClassSpace,
              ClassUpper, ClassXdigit}

\* The loop that strips every trailing space, escaped or not.
RECURSIVE TrimLoop_NoEscape(_, _)
TrimLoop_NoEscape(s, i) ==
    IF i > 0 /\ s[i] = " " THEN TrimLoop_NoEscape(s, i - 1) ELSE i

\* trimTrailingSpaces: the loop, i being the length kept so far.
RECURSIVE TrimLoop(_, _)
TrimLoop(s, i) ==
    IF i > 0 /\ s[i] = " "
    THEN IF i >= 2 /\ s[i - 1] = "\\" THEN i ELSE TrimLoop(s, i - 1)
    ELSE i

trimTrailingSpaces(s) == SubSeq(s, 1, TrimLoop(s, Len(s)))

\* The inner loop of validateBrackets, looking for the closing ']' from j:
\* the message of an unknown class, or the position reached.
RECURSIVE BracketScan(_, _)
BracketScan(glob, j) ==
    IF ~(j < Len(glob) /\ glob[j + 1] # "]") THEN [msg |-> <<>>, j |-> j]
    ELSE IF glob[j + 1] = "\\" /\ j + 1 < Len(glob) THEN BracketScan(glob, j + 2)
    ELSE
      LET end == IF glob[j + 1] = "[" /\ j + 1 < Len(glob) /\ glob[j + 2] = ":"
                 THEN findPosixClassEnd(glob, j + 2) ELSE -1
          name == Slice(glob, j + 2, end)
      IN IF end >= 0
         THEN IF ~validPosixClassName(name)
              THEN [msg |-> MsgUnknownClass(name), j |-> j]
              ELSE BracketScan(glob, end + 2)
         ELSE BracketScan(glob, j + 1)

RECURSIVE ValidateLoop(_, _)
ValidateLoop(glob, i) ==
    IF ~(i < Len(glob)) THEN <<>>
    ELSE IF glob[i + 1] = "\\" /\ i + 1 < Len(glob) THEN ValidateLoop(glob, i + 2)
    ELSE IF glob[i + 1] # "[" THEN ValidateLoop(glob, i + 1)
    ELSE
      LET j0 == i + 1
          j1 == IF j0 < Len(glob) /\ glob[j0 + 1] \in {"!", "^"} THEN j0 + 1 ELSE j0
          j2 == IF j1 < Len(glob) /\ glob[j1 + 1] = "]" THEN j1 + 1 ELSE j1
          r  == BracketScan(glob, j2)
      IN IF r.msg # <<>> THEN r.msg
         ELSE IF r.j >= Len(glob) THEN ValidateLoop(glob, i + 1)
         ELSE ValidateLoop(glob, r.j + 1)

validateBrackets(glob) == ValidateLoop(glob, 0)

\* The last non-** segment's raw text, "" when there is none.
RECURSIVE LastConcreteRaw(_, _)
LastConcreteRaw(segs, i) ==
    IF i < 0 THEN <<>>
    ELSE IF ~segs[i + 1].doubleStar THEN segs[i + 1].raw
    ELSE LastConcreteRaw(segs, i - 1)

extractLiteralSuffix(segs) ==
    LET last == LastConcreteRaw(segs, Len(segs) - 1)
        starIdx == LastIndexStar(last, Len(last) - 1)
        suffix == Slice(last, starIdx + 1, Len(last))
    IN IF last = <<>> THEN <<>>
       ELSE IF starIdx < 0 THEN <<>>
       ELSE IF suffix = <<>> THEN <<>>
       ELSE IF \E i \in 1..Len(suffix) : suffix[i] \in {"*", "?", "[", "\\"}
       THEN <<>>
       ELSE suffix

\* The loop that keeps every segment.
CollapseLoop_Keep(segs, i, collapsed) == segs

\* Collapse consecutive ** segments: the loop from i, collapsed so far.
RECURSIVE CollapseLoop(_, _, _)
CollapseLoop(segs, i, collapsed) ==
    IF ~(i < Len(segs)) THEN collapsed
    ELSE IF segs[i + 1].doubleStar /\ collapsed[Len(collapsed)].doubleStar
    THEN CollapseLoop(segs, i + 1, collapsed)
    ELSE CollapseLoop(segs, i + 1, Append(collapsed, segs[i + 1]))

\* The message of the first segment validateBrackets rejects, "" if none.
RECURSIVE ValidateSegs(_, _)
ValidateSegs(segs, i) ==
    IF ~(i < Len(segs)) THEN <<>>
    ELSE IF segs[i + 1].doubleStar THEN ValidateSegs(segs, i + 1)
    ELSE LET msg == validateBrackets(segs[i + 1].raw)
         IN IF msg # <<>> THEN msg ELSE ValidateSegs(segs, i + 1)

\* The negation test never taken.
Negated_Never(line) == FALSE

\* The negation test of compilePattern.
Negated(line) == HasPrefix(line, <<"!">>)

\* The message-only result of a line compilePattern rejects.
Failure(errMsg) == [p |-> ZeroPattern, errMsg |-> errMsg]

\* compilePattern from the validation on, with the collapsed segment list.
compileTail(collapsed, negate, dirOnly, anchored, dir) ==
    LET msg == ValidateSegs(collapsed, 0)
        addTail == ~dirOnly /\ (Len(collapsed) = 0 \/ ~collapsed[Len(collapsed)].doubleStar)
    IN IF msg # <<>> THEN Failure(msg)
       ELSE Only({[p |-> [segments |-> segs, negate |-> negate, dirOnly |-> dirOnly,
                          hasConcrete |-> \E i \in 1..Len(segs) : ~segs[i].doubleStar,
                          anchored |-> anchored, prefix |-> dir, text |-> <<>>,
                          source |-> <<>>, line |-> 0,
                          literalSuffix |-> extractLiteralSuffix(segs)],
                   errMsg |-> <<>>] :
                 segs \in {IF addTail THEN Append(collapsed, DoubleStarSeg)
                           ELSE collapsed}})

\* Anchoring decided by the leading slash alone.
Anchored_LeadingOnly(hasLeadingSlash, rawSegs) == hasLeadingSlash

\* p.anchored: a leading slash, or a slash inside the pattern.
Anchored(hasLeadingSlash, rawSegs) == hasLeadingSlash \/ Len(rawSegs) > 1

\* compilePattern from the split on, with the raw segments of the line.
compileSegments(rawSegs, negate, dirOnly, hasLeadingSlash, dir) ==
    LET anchored == Anchored(hasLeadingSlash, rawSegs)
        segs == (IF ~anchored THEN <<DoubleStarSeg>> ELSE <<>>) \o
                [i \in 1..Len(rawSegs) |->
                    IF rawSegs[i] = <<"*", "*">> THEN DoubleStarSeg
                    ELSE LiteralSeg(rawSegs[i])]
    IN Only({Only({compileTail(collapsed, negate, dirOnly, anchored, dir) :
                     collapsed \in {CollapseLoop(built, 1, SubSeq(built, 1, 1))}}) :
               built \in {segs}})

\* The trailing-slash test that lets a backslash escape the slash.
TrailingSlash_Unescaped(line) ==
    Len(line) > 1 /\ line[Len(line)] = "/" /\ line[Len(line) - 1] # "\\"

\* len(line) > 1 && line[len(line)-1] == '/'
TrailingSlash(line) == Len(line) > 1 /\ line[Len(line)] = "/"

\* compilePattern after the negation and the escaped marker are handled.
compileStripped(line, negate, dir) ==
    LET dirOnly == TrailingSlash(line)
        l3 == IF dirOnly THEN SubSeq(line, 1, Len(line) - 1) ELSE line
        hasLeadingSlash == l3[1] = "/"
        l4 == IF hasLeadingSlash THEN Tail(l3) ELSE l3
    IN IF line = <<>> \/ line = <<"/">> THEN Failure(MsgEmptyPattern)
       ELSE IF l4 = <<>> THEN Failure(MsgEmptyPattern)
       ELSE Only({compileSegments(rawSegs, negate, dirOnly, hasLeadingSlash, dir) :
                    rawSegs \in {Split(l4)}})

compilePattern(line, dir) ==
    LET negate == Negated(line)
        l1 == IF negate THEN Tail(line) ELSE line
        l2 == IF Len(l1) >= 2 /\ l1[1] = "\\" /\ (l1[2] = "#" \/ l1[2] = "!")
              THEN Tail(l1) ELSE l1
    IN Only({compileStripped(stripped, negate, dir) : stripped \in {l2}})

(***************************************************************************)
(* The matcher.  A matcher value is [patterns, errors].                    *)
(***************************************************************************)
PatternError(pattern, source, line, message) ==
    [Pattern |-> pattern, Source |-> source, Line |-> line, Message |-> message]

\* byte('0' + d)
DigitByte(d) == Ascii[17 + d]

\* The conversion that keeps the last digit only.
itoa_LastDigit(n) == <<DigitByte(n % 10)>>

\* The digit loop of itoa: buf[i:] so far, filled from the right.
RECURSIVE itoaLoop(_, _)
itoaLoop(n, buf) ==
    IF ~(n > 0) THEN buf
    ELSE itoaLoop(n \div 10, <<DigitByte(n % 10)>> \o buf)

itoa(n) == IF n = 0 THEN <<"0">> ELSE itoaLoop(n, <<>>)

\* PatternError.Error
ErrorOf(e) ==
    IF e.Source # <<>>
    THEN e.Source \o <<":">> \o itoa(e.Line) \o <<": invalid pattern: ">>
             \o e.Pattern \o <<": ">> \o e.Message
    ELSE <<"invalid pattern: ">> \o e.Pattern \o <<": ">> \o e.Message

\* The test recording only the unknown-class messages.
Rejected_ClassOnly(errMsg) == errMsg # <<>> /\ errMsg # MsgEmptyPattern

\* The test of addPatterns on the message compilePattern returned.
Rejected(errMsg) == errMsg # <<>>

\* The scanner loop of addPatterns over the scanned lines, from line k + 1.
RECURSIVE addLoop(_, _, _, _, _)
addLoop(m, lines, k, dir, source) ==
    IF k >= Len(lines) THEN m
    ELSE
      LET lineNum == k + 1
          step(line) ==
            IF line = <<>> \/ line[1] = "#" THEN m
            ELSE Only({IF Rejected(c.errMsg)
                       THEN [m EXCEPT !.errors =
                                Append(@, PatternError(line, source, lineNum, c.errMsg))]
                       ELSE [m EXCEPT !.patterns =
                                Append(@, [c.p EXCEPT !.text = line, !.source = source,
                                                      !.line = lineNum])] :
                         c \in {compilePattern(line, dir)}})
      IN Only({addLoop(next, lines, k + 1, dir, source) :
                 next \in {Only({step(line) : line \in {trimTrailingSpaces(lines[k + 1])}})}})

addPatterns(m, data, dir, source) ==
    Only({addLoop(m, lines, 0, dir, source) : lines \in {ScanLines(data)}})

\* The prefix gate that compares the lengths only.
PrefixMatches_LengthOnly(segs, prefixSegs) == Len(segs) >= Len(prefixSegs)

\* The prefix comparison loop of matchPattern.
PrefixMatches(segs, prefixSegs) ==
    /\ Len(segs) >= Len(prefixSegs)
    /\ \A i \in 1..Len(prefixSegs) : segs[i] = prefixSegs[i]

\* The descendant loop of matchPattern: end from len(segs) - 1 down to 1.
RECURSIVE DescendantLoop(_, _, _)
DescendantLoop(p, segs, end) ==
    IF end < 1 THEN FALSE
    ELSE IF matchSegments(p.segments, SubSeq(segs, 1, end)) THEN TRUE
    ELSE DescendantLoop(p, segs, end - 1)

\* matchPattern that takes an exact match of a directory-only pattern for a
\* match whatever the path is.
matchPattern_AnyKind(p, pathSegs, isDir) ==
    LET prefixSegs == Split(p.prefix)
        segs == IF p.prefix # <<>>
                THEN SubSeq(pathSegs, Len(prefixSegs) + 1, Len(pathSegs))
                ELSE pathSegs
    IN IF p.prefix # <<>> /\ ~PrefixMatches(pathSegs, prefixSegs) THEN FALSE
       ELSE IF p.dirOnly /\ ~matchSegments(p.segments, segs)
       THEN p.hasConcrete /\ DescendantLoop(p, segs, Len(segs) - 1)
       ELSE matchSegments(p.segments, segs)

matchPattern(p, pathSegs, isDir) ==
    LET prefixSegs == Split(p.prefix)
        segs == IF p.prefix # <<>>
                THEN SubSeq(pathSegs, Len(prefixSegs) + 1, Len(pathSegs))
                ELSE pathSegs
    IN IF p.prefix # <<>> /\ ~PrefixMatches(pathSegs, prefixSegs) THEN FALSE
       ELSE IF p.dirOnly
       THEN IF matchSegments(p.segments, segs) THEN isDir
            ELSE IF ~p.hasConcrete THEN FALSE
            ELSE DescendantLoop(p, segs, Len(segs) - 1)
       ELSE matchSegments(p.segments, segs)

\* The body of the loop of match and matchDetail before the return: the
\* pattern is not skipped.
PatternHits(p, pathSegs, isDir) ==
    LET lastSeg == pathSegs[Len(pathSegs)]
    IN /\ ~(p.literalSuffix # <<>> /\ ~HasSuffix(lastSeg, p.literalSuffix))
       /\ matchPattern(p, pathSegs, isDir)

RECURSIVE matchLoop(_, _, _, _)
matchLoop(pats, pathSegs, isDir, i) ==
    IF i < 0 THEN FALSE
    ELSE IF PatternHits(pats[i + 1], pathSegs, isDir) THEN ~pats[i + 1].negate
    ELSE matchLoop(pats, pathSegs, isDir, i - 1)

\* match with the loop run from the first pattern to the last.
RECURSIVE FirstWinsLoop(_, _, _, _)
FirstWinsLoop(pats, pathSegs, isDir, i) ==
    IF ~(i < Len(pats)) THEN FALSE
    ELSE IF PatternHits(pats[i + 1], pathSegs, isDir) THEN ~pats[i + 1].negate
    ELSE FirstWinsLoop(pats, pathSegs, isDir, i + 1)

match_FirstWins(m, relPath, isDir) ==
    FirstWinsLoop(m.patterns, Split(relPath), isDir, 0)

match(m, relPath, isDir) ==
    matchLoop(m.patterns, Split(relPath), isDir, Len(m.patterns) - 1)

\* MatchResult{}: the zero value.
ZeroResult ==
    [Ignored |-> FALSE, Matched |-> FALSE, Pattern |-> <<>>, Source |-> <<>>,
     Line |-> 0, Negate |-> FALSE]

\* The MatchResult matchDetail returns for the pattern that matched, with
\* Ignored a copy of the negate flag.
ResultOf_IgnoredIsNegate(p) ==
    [Ignored |-> p.negate, Matched |-> TRUE, Pattern |-> p.text,
     Source |-> p.source, Line |-> p.line, Negate |-> p.negate]

\* The MatchResult matchDetail returns for the pattern that matched.
ResultOf(p) ==
    [Ignored |-> ~p.negate, Matched |-> TRUE, Pattern |-> p.text,
     Source |-> p.source, Line |-> p.line, Negate |-> p.negate]

RECURSIVE matchDetailLoop(_, _, _, _)
matchDetailLoop(pats, pathSegs, isDir, i) ==
    IF i < 0 THEN ZeroResult
    ELSE IF PatternHits(pats[i + 1], pathSegs, isDir) THEN ResultOf(pats[i + 1])
    ELSE matchDetailLoop(pats, pathSegs, isDir, i - 1)

\* matchDetail with the loop run from the first pattern to the last.
RECURSIVE DetailOldestLoop(_, _, _, _)
DetailOldestLoop(pats, pathSegs, isDir, i) ==
    IF ~(i < Len(pats)) THEN ZeroResult
    ELSE IF PatternHits(pats[i + 1], pathSegs, isDir) THEN ResultOf(pats[i + 1])
    ELSE DetailOldestLoop(pats, pathSegs, isDir, i + 1)

matchDetail_Oldest(m, relPath, isDir) ==
    DetailOldestLoop(m.patterns, Split(relPath), isDir, 0)

matchDetail(m, relPath, isDir) ==
    matchDetailLoop(m.patterns, Split(relPath), isDir, Len(m.patterns) - 1)

\* The trailing-slash convention of Match and MatchDetail.
TrailingSlashIsDir(relPath) == HasSuffix(relPath, <<"/">>)
StripSlash(relPath) ==
    IF TrailingSlashIsDir(relPath) THEN SubSeq(relPath, 1, Len(relPath) - 1)
    ELSE relPath

\* Match with the directory flag taken after the slash was stripped.
MatchOf_FlagAfterStrip(m, relPath) ==
    match(m, StripSlash(relPath), TrailingSlashIsDir(StripSlash(relPath)))

MatchOf(m, relPath) == match(m, StripSlash(relPath), TrailingSlashIsDir(relPath))
MatchPathOf(m, relPath, isDir) == match(m, relPath, isDir)
MatchDetailOf(m, relPath) ==
    matchDetail(m, StripSlash(relPath), TrailingSlashIsDir(relPath))

(***************************************************************************)
(* Inputs.  Lines, scope directories, files and query paths are drawn from *)
(* the sets below.                                                         *)
(***************************************************************************)
\* Lines a matcher takes in over all its ingestion calls (Spec).
MaxEntries == 2
\* Lines of the buffer of one ingestion call (SpecIngest).
MaxBufLines == 3
\* Components of a query path (SpecSingle).
MaxDepth == 2
\* Lines of a list and of its toggled list (SpecToggle).
MaxToggle == 2

RECURSIVE JoinWith(_, _)
JoinWith(parts, sep) ==
    IF parts = <<>> THEN <<>>
    ELSE IF Len(parts) = 1 THEN parts[1]
    ELSE parts[1] \o sep \o JoinWith(Tail(parts), sep)

SeqsUpTo(S, n) == UNION {[1..k -> S] : k \in 0..n}

\* A buffer: its lines, each ended by "\n" or the last one left unterminated.
BufferOf(lines, terminated) ==
    JoinWith(lines, <<"\n">>) \o (IF terminated /\ lines # <<>> THEN <<"\n">> ELSE <<>>)

ScopeD == <<"d">>
Dirs == {<<>>, ScopeD}

LineA == <<"a">>
LineNotA == <<"!", "a">>
LineADir == <<"a", "/">>
LineSlash == <<"/">>
LineComment == <<"#", "a">>
LineBadClass == <<"[", "[", ":", "x", ":", "]", "]">>
LineBadClassSp == LineBadClass \o <<" ">>
LineDigitClass == <<"[", "[", ":", "d", "i", "g", "i", "t", ":", "]", "]">>

\* Spec: a name, its negation, a directory-only name, an empty pattern and
\* a comment.
PoolLines == {LineA, LineNotA, LineADir, LineSlash, LineComment}

\* SpecIngest: a name, an unknown POSIX class followed by a space to trim, a
\* known class, the lines that reduce to an empty pattern, a comment and a
\* blank line.
IngestLines ==
    {LineA, LineBadClassSp, LineDigitClass, LineSlash, <<"!">>, <<"!", "/">>,
     <<"/", "/">>, LineComment, <<>>}

\* SpecSingle: names and globs, floating and anchored, with and without the
\* trailing slash, and the patterns made of ** only.
SingleLines ==
    {LineA, <<"*", "a">>, <<"/", "a">>, <<"*", "*">>,
     LineADir, <<"*", "a", "/">>, <<"*", "*", "/">>, <<"[", "*", "]", "/">>}

\* SpecToggle: a name, negated once and twice, a negated name that starts
\* with '#', an escaped '!', and a comment.
ToggleLines ==
    {LineA, LineNotA, <<"!", "!", "a">>, <<"!", "#", "a">>, <<"\\", "!", "a">>,
     LineComment}

\* The files AddFromFile may be pointed at: a nested ignore file and a path
\* that cannot be read.
IgnoreFileD == <<"/", "r", "/", "d", "/", ".", "g", "i", "t", "i", "g", "n", "o", "r", "e">>
MissingFile == <<"/", "r", "/", "n", "o", "n", "e">>
FilePaths == {IgnoreFileD, MissingFile}
FileLines == <<LineNotA, LineBadClass>>
ReadFile(absPath) ==
    IF absPath = IgnoreFileD
    THEN [ok |-> TRUE, data |-> BufferOf(FileLines, TRUE)]
    ELSE [ok |-> FALSE, data |-> <<>>]

\* Query paths: component lists joined with "/".
Comps == {<<"a">>, <<"b">>, <<"d">>, <<"*">>, <<"]">>}
PathSegs == SeqsUpTo(Comps, MaxDepth) \ {<<>>}
PathOf(segs) == JoinWith(segs, <<"/">>)
Paths == {PathOf(segs) : segs \in PathSegs}

\* The arguments the query steps of Spec and SpecIngest are called with.
CallPaths == {<<"a">>, <<"a", "/">>, <<"d", "/", "a">>, <<"d", "/", "a", "/">>, <<"b">>}

\* The arguments the query steps of SpecToggle are called with.
TogglePaths == {<<"a">>, <<"!", "a">>, <<"#", "a">>, <<"b">>, <<"b", "/", "a">>}

(***************************************************************************)
(* State: the matcher's two lists, the last call with what it returned,    *)
(* the calls of match and matchDetail that concurrent readers are in, and  *)
(* the directory walk in progress.                                         *)
(***************************************************************************)
VARIABLES patterns, errors, ret, readers, walk

vars == <<patterns, errors, ret, readers, walk>>

Matcher == [patterns |-> patterns, errors |-> errors]
EmptyMatcher == [patterns |-> <<>>, errors |-> <<>>]

\* A call record: np and ne are the lengths of the two lists at the call.
\* The goroutines that call match or matchDetail, and a goroutine that is
\* in no call; i is the loop variable of the call, a local of the goroutine.
Readers == {1, 2}
IdleReader ==
    [pc |-> "idle", op |-> "", path |-> <<>>, isDir |-> FALSE, i |-> -1,
     ignored |-> FALSE, detail |-> ZeroResult]

\* No walk: no file system, no frame of walkRecursive, nothing logged.
IdleWalk ==
    [pc |-> "idle", fs |-> <<>>, root |-> <<>>, hasFn |-> FALSE, failAt |-> <<>>,
     stack |-> <<>>, log |-> <<>>, err |-> FALSE]

Call(op) ==
    [op |-> op, path |-> <<>>, dir |-> <<>>, isDir |-> FALSE, data |-> <<>>,
     source |-> <<>>, np |-> Len(patterns), ne |-> Len(errors),
     ignored |-> FALSE, detail |-> ZeroResult, errs |-> <<>>, str |-> <<>>]

\* &Matcher{}
Init ==
    /\ patterns = <<>>
    /\ errors = <<>>
    /\ ret = [op |-> "init", path |-> <<>>, dir |-> <<>>, isDir |-> FALSE,
              data |-> <<>>, source |-> <<>>, np |-> 0, ne |-> 0,
              ignored |-> FALSE, detail |-> ZeroResult, errs |-> <<>>, str |-> <<>>]
    /\ readers = [r \in Readers |-> IdleReader]
    /\ walk = IdleWalk

\* The ingestion that starts from an empty matcher at every call.
Ingest_Fresh(data, dir, source) ==
    \E m \in {addPatterns(EmptyMatcher, data, dir, source)} :
        /\ patterns' = m.patterns
        /\ errors' = m.errors
        /\ UNCHANGED <<readers, walk>>

Ingest(data, dir, source) ==
    \E m \in {addPatterns(Matcher, data, dir, source)} :
        /\ patterns' = m.patterns
        /\ errors' = m.errors
        /\ UNCHANGED <<readers, walk>>

AddPatterns(data, dir) ==
    /\ Ingest(data, dir, <<>>)
    /\ ret' = [Call("AddPatterns") EXCEPT !.data = data, !.dir = dir]

AddFromFile(absPath, relDir) ==
    LET r == ReadFile(absPath)
    IN IF ~r.ok
       THEN /\ UNCHANGED <<patterns, errors, readers, walk>>
            /\ ret' = [Call("AddFromFile") EXCEPT !.path = absPath, !.dir = relDir]
       ELSE /\ Ingest(r.data, relDir, absPath)
            /\ ret' = [Call("AddFromFile") EXCEPT !.path = absPath, !.dir = relDir,
                          !.data = r.data, !.source = absPath]

Match(relPath) ==
    /\ ret' = [Call("Match") EXCEPT !.path = relPath,
                  !.ignored = MatchOf(Matcher, relPath)]
    /\ UNCHANGED <<patterns, errors, readers, walk>>

MatchPath(relPath, isDir) ==
    /\ ret' = [Call("MatchPath") EXCEPT !.path = relPath, !.isDir = isDir,
                  !.ignored = MatchPathOf(Matcher, relPath, isDir)]
    /\ UNCHANGED <<patterns, errors, readers, walk>>

MatchDetail(relPath) ==
    /\ ret' = [Call("MatchDetail") EXCEPT !.path = relPath,
                  !.detail = MatchDetailOf(Matcher, relPath)]
    /\ UNCHANGED <<patterns, errors, readers, walk>>

Errors ==
    /\ ret' = [Call("Errors") EXCEPT !.errs = errors]
    /\ UNCHANGED <<patterns, errors, readers, walk>>

\* e.Error() on a PatternError value e.
Error(e) ==
    /\ ret' = [Call("Error") EXCEPT !.errs = <<e>>, !.str = ErrorOf(e)]
    /\ UNCHANGED <<patterns, errors, readers, walk>>

\* The loop variable read from the first goroutine, as if it were shared.
LoopIndex_Shared(r) == readers[1].i

\* The loop variable i of the call goroutine r is in.
LoopIndex(r) == readers[r].i

\* Goroutine r enters match or matchDetail: pathSegs is split, i is set to
\* the index of the last pattern.
Begin(r, op, relPath, isDir) ==
    /\ readers[r].pc = "idle"
    /\ readers' = [readers EXCEPT ![r] =
                      [IdleReader EXCEPT !.pc = "loop", !.op = op, !.path = relPath,
                                         !.isDir = isDir, !.i = Len(patterns) - 1]]
    /\ UNCHANGED <<patterns, errors, ret, walk>>

\* One iteration of the loop of match or matchDetail in goroutine r, or the
\* return after the loop.
Step(r) ==
    /\ readers[r].pc = "loop"
    /\ \E i \in {LoopIndex(r)} :
          readers' = [readers EXCEPT ![r] =
              IF i < 0 THEN [@ EXCEPT !.pc = "done"]
              ELSE IF PatternHits(patterns[i + 1], Split(@.path), @.isDir)
              THEN IF @.op = "match"
                   THEN [@ EXCEPT !.pc = "done", !.ignored = ~patterns[i + 1].negate]
                   ELSE [@ EXCEPT !.pc = "done", !.detail = ResultOf(patterns[i + 1])]
              ELSE [@ EXCEPT !.i = i - 1]]
    /\ UNCHANGED <<patterns, errors, ret, walk>>

\* The lines a matcher still has room for, out of max.
Free(max) ==
    IF Len(patterns) + Len(errors) >= max THEN 0
    ELSE max - Len(patterns) - Len(errors)

IsFresh == ret.op = "init"

\* Spec: any sequence of ingestion calls and queries.
Next ==
    \/ \E ls \in SeqsUpTo(PoolLines, Free(MaxEntries)), t \in BOOLEAN, dir \in Dirs :
          AddPatterns(BufferOf(ls, t), dir)
    \/ \E f \in FilePaths, dir \in Dirs :
          /\ ReadFile(f).ok => Len(FileLines) <= Free(MaxEntries)
          /\ AddFromFile(f, dir)
    \/ \E p \in CallPaths : Match(p)
    \/ \E p \in CallPaths, d \in BOOLEAN : MatchPath(p, d)
    \/ \E p \in CallPaths : MatchDetail(p)
    \/ Errors

Spec == Init /\ [][Next]_vars

\* SpecIngest: one buffer of lines, some of which the compiler rejects,
\* handed to a new matcher or to one that has been pointed at a file, and
\* the error list read back.
NextIngest ==
    \/ \E ls \in SeqsUpTo(IngestLines, MaxBufLines), t \in BOOLEAN :
          /\ ret.op \in {"init", "AddFromFile"}
          /\ AddPatterns(BufferOf(ls, t), <<>>)
    \/ \E f \in FilePaths : IsFresh /\ AddFromFile(f, ScopeD)
    \/ ~IsFresh /\ Errors

SpecIngest == Init /\ [][NextIngest]_vars

\* SpecSingle: one pattern line, ingested with or without a scope, then
\* queries over every path of at most MaxDepth components.
NextSingle ==
    \/ \E l \in SingleLines, dir \in Dirs :
          IsFresh /\ AddPatterns(BufferOf(<<l>>, TRUE), dir)
    \/ \E p \in Paths, d \in BOOLEAN : ~IsFresh /\ MatchPath(p, d)

SpecSingle == Init /\ [][NextSingle]_vars

\* SpecToggle: one list of lines, then queries.
NextToggle ==
    \/ \E ls \in SeqsUpTo(ToggleLines, MaxToggle) :
          IsFresh /\ AddPatterns(BufferOf(ls, TRUE), <<>>)
    \/ \E p \in TogglePaths, d \in BOOLEAN : ~IsFresh /\ MatchPath(p, d)

SpecToggle == Init /\ [][NextToggle]_vars

\* SpecError: buffers of at most MaxErrBuf lines after a run of blank lines,
\* so that rejected lines get numbers of one and of two digits; then
\* Error on a recorded error or on a PatternError value built by the caller.
MaxErrBuf == 2
ErrLines == {LineA, LineBadClass, LineSlash}
BlankRuns == {0, 9}
BlankLines(n) == [i \in 1..n |-> <<>>]
ErrorValues ==
    {PatternError(LineBadClass, src, n, MsgEmptyPattern) :
        src \in {<<>>, IgnoreFileD}, n \in {0, 7, 40, 1000}}

NextError ==
    \/ \E ls \in SeqsUpTo(ErrLines, MaxErrBuf), n \in BlankRuns :
          /\ ret.op \in {"init", "AddFromFile"}
          /\ AddPatterns(BufferOf(BlankLines(n) \o ls, TRUE), <<>>)
    \/ \E f \in FilePaths : IsFresh /\ AddFromFile(f, ScopeD)
    \/ \E i \in 1..Len(errors) : Error(errors[i])
    \/ \E e \in ErrorValues : Error(e)

SpecError == Init /\ [][NextError]_vars

\* SpecDetail: lines written with trailing spaces, a '!' or a '/', from a
\* buffer or after the ignore file, then MatchDetail.
MaxDetailBuf == 2
DetailLines ==
    {LineA, LineNotA \o <<" ", " ">>, LineADir \o <<" ">>, <<"b", "\\", " ", " ">>,
     LineComment}
DetailPaths == {<<"a">>, <<"a", "/">>, <<"b", " ">>, <<"d">>}

NextDetail ==
    \/ \E ls \in SeqsUpTo(DetailLines, MaxDetailBuf) :
          /\ ret.op \in {"init", "AddFromFile"}
          /\ AddPatterns(BufferOf(ls, TRUE), <<>>)
    \/ \E f \in FilePaths : IsFresh /\ AddFromFile(f, <<>>)
    \/ \E p \in DetailPaths : ~IsFresh /\ MatchDetail(p)

SpecDetail == Init /\ [][NextDetail]_vars

\* SpecAppend: ingestion calls one after the other, each with a buffer or
\* with the ignore file, until the matcher holds MaxAppend entries.
MaxAppend == 4
AppendLines == {LineA, LineNotA, LineSlash}

NextAppend ==
    \/ \E ls \in SeqsUpTo(AppendLines, Free(MaxAppend)) :
          AddPatterns(BufferOf(ls, TRUE), <<>>)
    \/ \E f \in FilePaths :
          /\ ReadFile(f).ok => Len(FileLines) <= Free(MaxAppend)
          /\ AddFromFile(f, ScopeD)
    \/ Errors

SpecAppend == Init /\ [][NextAppend]_vars

\* SpecReaders: one buffer is ingested; then the goroutines call match and
\* matchDetail and run their loops in any interleaving, among themselves and
\* with a call of Errors, Match, MatchPath or MatchDetail.
MaxReadBuf == 2
ReadLines == {LineA, LineNotA, LineADir}
ReaderCalls ==
    {[op |-> "match", path |-> <<"a">>, isDir |-> FALSE],
     [op |-> "match", path |-> <<"a">>, isDir |-> TRUE],
     [op |-> "matchDetail", path |-> <<"a">>, isDir |-> FALSE],
     [op |-> "match", path |-> <<"b">>, isDir |-> FALSE]}

NextReaders ==
    \/ \E ls \in SeqsUpTo(ReadLines, MaxReadBuf) :
          IsFresh /\ AddPatterns(BufferOf(ls, TRUE), <<>>)
    \/ \E r \in Readers, c \in ReaderCalls :
          ~IsFresh /\ Begin(r, c.op, c.path, c.isDir)
    \/ \E r \in Readers : Step(r)
    \/ ret.op = "AddPatterns" /\ Errors
    \/ ret.op = "AddPatterns" /\ Match(LineADir)
    \/ ret.op = "AddPatterns" /\ MatchPath(LineA, FALSE)
    \/ ret.op = "AddPatterns" /\ MatchDetail(LineA)

SpecReaders == Init /\ [][NextReaders]_vars

\* SpecAnchor: one line, floating or anchored, with or without a scope
\* directory; then a query on a path of up to MaxAnchorDepth components.
MaxAnchorDepth == 3
AnchorLines ==
    {LineA, LineNotA, LineADir, <<"*", "a">>, <<"*", "*">>,
     <<"/", "a">>, <<"a", "/", "b">>, <<"/", "a", "/", "b">>,
     <<"!", "a", "/", "b">>, <<"!", "/", "a", "/", "b">>,
     <<"a", "/", "b", "/">>, <<"*", "/", "b">>, <<"*", "*", "/", "b">>,
     <<"/", "#", "/", "b">>, <<"/", "!", "/", "b">>, <<"\\", "#", "/", "b">>,
     <<"/", "/", "b">>}
AnchorComps == {<<"a">>, <<"b">>, <<"d">>, <<"#">>, <<"!">>}
AnchorSegs == SeqsUpTo(AnchorComps, MaxAnchorDepth) \ {<<>>}

NextAnchor ==
    \/ \E l \in AnchorLines, dir \in Dirs :
          IsFresh /\ AddPatterns(BufferOf(<<l>>, TRUE), dir)
    \/ \E segs \in AnchorSegs, d \in BOOLEAN :
          ret.op = "AddPatterns" /\ MatchPath(PathOf(segs), d)

SpecAnchor == Init /\ [][NextAnchor]_vars

(***************************************************************************)
(* New, NewFromDirectory and Walk over a file system.                      *)
(***************************************************************************)
DotGit == <<".", "g", "i", "t">>
DotGitignore == DotGit \o <<"i", "g", "n", "o", "r", "e">>
RootDir == <<"/", "r">>
GlobalPath == <<"/", "h", "/", "i", "g", "n", "o", "r", "e">>

\* filepath.Join of two clean paths, the first possibly empty.
PathJoin(a, b) == IF a = <<>> THEN b ELSE a \o <<"/">> \o b

ExcludePath == PathJoin(RootDir, PathJoin(DotGit, <<"i", "n", "f", "o", "/", "e", "x", "c", "l", "u", "d", "e">>))

\* A file that is absent, and a readable file with the given lines.
NoFile == [exists |-> FALSE, lines |-> <<>>]
FileOf(lines) == [exists |-> TRUE, lines |-> lines]

\* The working tree: a chain of directories a, a/a, ... of MaxTreeDepth
\* levels beneath the root.  Every directory holds the file b, the root
\* holds the directory .git, and the directory of depth k holds a
\* .gitignore when fs.ignore[k + 1] exists.
MaxTreeDepth == 2
DirAt(k) == JoinWith([i \in 1..k |-> <<"a">>], <<"/">>)
DepthOf(rel) == IF rel = <<>> THEN 0 ELSE Len(Split(rel))
IgnorePathAt(k) == PathJoin(PathJoin(RootDir, DirAt(k)), DotGitignore)

\* os.Stat and os.ReadFile: the file at an absolute path.
FileAt(fs, absPath) ==
    IF absPath = GlobalPath THEN fs.global
    ELSE IF absPath = ExcludePath THEN fs.exclude
    ELSE IF \E k \in 0..MaxTreeDepth : absPath = IgnorePathAt(k)
    THEN fs.ignore[(CHOOSE k \in 0..MaxTreeDepth : absPath = IgnorePathAt(k)) + 1]
    ELSE NoFile

\* os.ReadDir: the entries of the directory rel, sorted by name.
ReadDir(fs, rel) ==
    (IF rel = <<>> THEN <<[name |-> DotGit, isDir |-> TRUE]>> ELSE <<>>)
    \o (IF fs.ignore[DepthOf(rel) + 1].exists
        THEN <<[name |-> DotGitignore, isDir |-> FALSE]>> ELSE <<>>)
    \o (IF DepthOf(rel) < MaxTreeDepth
        THEN <<[name |-> <<"a">>, isDir |-> TRUE]>> ELSE <<>>)
    \o <<[name |-> <<"b">>, isDir |-> FALSE]>>

\* One source of New: the file is read and, when that succeeds, ingested
\* with empty scope.
LoadSource(m, fs, absPath) ==
    IF absPath # <<>> /\ FileAt(fs, absPath).exists
    THEN addPatterns(m, BufferOf(FileAt(fs, absPath).lines, TRUE), <<>>, absPath)
    ELSE m

\* globalExcludesFile: the path found, or "" when there is none.
globalExcludesFile(fs) == IF fs.global.exists THEN GlobalPath ELSE <<>>

\* New with the root .gitignore read first.
NewOf_IgnoreFirst(fs) ==
    Only({Only({LoadSource(m2, fs, ExcludePath) :
                  m2 \in {LoadSource(m1, fs, globalExcludesFile(fs))}}) :
            m1 \in {LoadSource(EmptyMatcher, fs, IgnorePathAt(0))}})

\* New(root): the matcher it returns.
NewOf(fs) ==
    Only({Only({LoadSource(m2, fs, IgnorePathAt(0)) :
                  m2 \in {LoadSource(m1, fs, ExcludePath)}}) :
            m1 \in {LoadSource(EmptyMatcher, fs, globalExcludesFile(fs))}})

\* An entry of the log of a walk: np is the length of the pattern list when
\* the event happened.
Event(kind, path, isDir) ==
    [kind |-> kind, path |-> path, isDir |-> isDir, np |-> Len(patterns)]

\* New(root) as a call.
New(fs) ==
    /\ IsFresh
    /\ \E m \in {NewOf(fs)} :
          /\ patterns' = m.patterns
          /\ errors' = m.errors
    /\ ret' = [Call("New") EXCEPT !.path = RootDir]
    /\ walk' = [IdleWalk EXCEPT !.fs = fs, !.root = RootDir]
    /\ UNCHANGED readers

\* The test that never skips the .git directory.
IsDotGit_Never(entry) == FALSE

\* name == ".git" && entry.IsDir()
IsDotGit(entry) == entry.name = DotGit /\ entry.isDir

\* The test that loads a .gitignore in the root as well.
LoadsIgnore_Always(rel) == TRUE

\* walkRecursive loads the .gitignore of every directory but the root.
LoadsIgnore(rel) == rel # <<>>

\* matchPath of an entry: slash-separated, with a trailing slash when the
\* entry is a directory.
MatchPathOfEntry(entryRel, isDir) == entryRel \o (IF isDir THEN <<"/">> ELSE <<>>)

\* The top frame of the walk with its first entry taken off.
Continue(stack) ==
    [stack EXCEPT ![Len(stack)].entries = Tail(@)]

\* The prologue of walkRecursive(root, rel, m, fn) finds a .gitignore to
\* load in rel.
Loaded(fs, rel) ==
    LoadsIgnore(rel) /\ FileAt(fs, PathJoin(PathJoin(RootDir, rel), DotGitignore)).exists

\* The matcher after the prologue: AddFromFile(igPath, rel) when the
\* .gitignore is there.
AfterPrologue(m, fs, rel) ==
    IF Loaded(fs, rel)
    THEN addPatterns(m,
                     BufferOf(FileAt(fs, PathJoin(PathJoin(RootDir, rel), DotGitignore)).lines, TRUE),
                     rel, PathJoin(PathJoin(RootDir, rel), DotGitignore))
    ELSE m

\* What the prologue adds to the log: the load, with the length of the
\* pattern list before it, and the entry into the directory, with the
\* length after it.
PrologueEvents(before, after, fs, rel) ==
    (IF Loaded(fs, rel)
     THEN <<[kind |-> "load", path |-> rel, isDir |-> TRUE, np |-> Len(before.patterns)]>>
     ELSE <<>>)
    \o <<[kind |-> "enter", path |-> rel, isDir |-> TRUE, np |-> Len(after.patterns)]>>

\* Walk (hasFn) or NewFromDirectory (fn = nil) up to the first ReadDir of
\* walkRecursive(root, "", m, fn); fn returns an error on the path failAt.
WalkBegin(fs, hasFn, failAt) ==
    /\ IsFresh
    /\ \E new \in {NewOf(fs)} :
       \E m \in {AfterPrologue(new, fs, <<>>)} :
          /\ patterns' = m.patterns
          /\ errors' = m.errors
          /\ walk' = [pc |-> "walking", fs |-> fs, root |-> RootDir, hasFn |-> hasFn,
                      failAt |-> failAt,
                      stack |-> <<[rel |-> <<>>, entries |-> ReadDir(fs, <<>>)]>>,
                      log |-> PrologueEvents(new, m, fs, <<>>), err |-> FALSE]
    /\ ret' = [Call(IF hasFn THEN "Walk" ELSE "NewFromDirectory") EXCEPT !.path = RootDir]
    /\ UNCHANGED readers

\* One step of walkRecursive: the return of the innermost call when its
\* entries are exhausted, otherwise one iteration of its loop, with the
\* prologue of the recursive call when the entry is a directory that is
\* descended into.
WalkStep ==
    /\ walk.pc = "walking"
    /\ UNCHANGED <<ret, readers>>
    /\ \E top \in {walk.stack[Len(walk.stack)]} :
        IF top.entries = <<>>
        THEN /\ walk' = [walk EXCEPT
                            !.stack = SubSeq(@, 1, Len(@) - 1),
                            !.pc = IF Len(walk.stack) = 1 THEN "done" ELSE "walking"]
             /\ UNCHANGED <<patterns, errors>>
        ELSE \E entry \in {Head(top.entries)} :
             \E entryRel \in {PathJoin(top.rel, entry.name)} :
             \E ignored \in {MatchOf(Matcher, MatchPathOfEntry(entryRel, entry.isDir))} :
             \E tested \in {Append(walk.log, Event("test", entryRel, entry.isDir))} :
             \E called \in {IF walk.hasFn
                            THEN Append(tested, Event("fn", entryRel, entry.isDir))
                            ELSE tested} :
               IF IsDotGit(entry)
               THEN /\ walk' = [walk EXCEPT !.stack = Continue(@)]
                    /\ UNCHANGED <<patterns, errors>>
               ELSE IF ignored
               THEN /\ walk' = [walk EXCEPT !.stack = Continue(@), !.log = tested]
                    /\ UNCHANGED <<patterns, errors>>
               ELSE IF walk.hasFn /\ walk.failAt = entryRel
               THEN /\ walk' = [walk EXCEPT !.stack = <<>>, !.log = called,
                                            !.pc = "done", !.err = TRUE]
                    /\ UNCHANGED <<patterns, errors>>
               ELSE IF ~entry.isDir
               THEN /\ walk' = [walk EXCEPT !.stack = Continue(@), !.log = called]
                    /\ UNCHANGED <<patterns, errors>>
               ELSE \E m \in {AfterPrologue(Matcher, walk.fs, entryRel)} :
                      /\ patterns' = m.patterns
                      /\ errors' = m.errors
                      /\ walk' = [walk EXCEPT
                            !.stack = Append(Continue(@),
                                             [rel |-> entryRel,
                                              entries |-> ReadDir(walk.fs, entryRel)]),
                            !.log = called
                                \o PrologueEvents(Matcher, m, walk.fs, entryRel)]

\* The contents a .gitignore is given: the file b, its negation, the
\* directory a.
LineB == <<"b">>
LineNotB == <<"!", "b">>
IgnoreFiles == {NoFile, FileOf(<<LineB>>), FileOf(<<LineNotB>>), FileOf(<<LineADir>>)}

\* SpecWalk: Walk and NewFromDirectory over every working tree whose
\* directories hold a .gitignore of IgnoreFiles or none, without a global
\* excludes file and without .git/info/exclude.
WalkTrees ==
    [global : {NoFile}, exclude : {NoFile}, ignore : [1..(MaxTreeDepth + 1) -> IgnoreFiles]]

NextWalk ==
    \/ \E fs \in WalkTrees, hasFn \in BOOLEAN : WalkBegin(fs, hasFn, <<>>)
    \/ \E fs \in WalkTrees : WalkBegin(fs, TRUE, <<"a">>)
    \/ WalkStep

SpecWalk == Init /\ [][NextWalk]_vars

\* SpecNew: New over every choice of a global excludes file, a
\* .git/info/exclude and a root .gitignore of at most MaxNewLines lines, or
\* absent; then one query.
MaxNewLines == 1
NewFiles == {NoFile} \cup {FileOf(ls) : ls \in SeqsUpTo({LineA, LineNotA}, MaxNewLines)}
NewTrees ==
    [global : NewFiles, exclude : NewFiles,
     ignore : {[k \in 1..(MaxTreeDepth + 1) |-> IF k = 1 THEN f ELSE NoFile] : f \in NewFiles}]

NextNew ==
    \/ \E fs \in NewTrees : New(fs)
    \/ \E path \in {LineA, LineB}, d \in BOOLEAN :
          ret.op = "New" /\ MatchPath(path, d)

SpecNew == Init /\ [][NextNew]_vars

\* SpecCompile: one line of up to MaxCompileLen bytes, made of a letter,
\* '*', '/', '!' and the backslash, is ingested with or without a scope.
MaxCompileLen == 5
CompileBytes == {"a", "*", "/", "!", "\\"}

NextCompile ==
    /\ IsFresh
    /\ \E line \in SeqsUpTo(CompileBytes, MaxCompileLen), dir \in Dirs :
          AddPatterns(BufferOf(<<line>>, TRUE), dir)

SpecCompile == Init /\ [][NextCompile]_vars

\* The arguments of a call of a function that has not run yet.
Args(op, args) ==
    /\ patterns = <<>>
    /\ errors = <<>>
    /\ readers = [r \in Readers |-> IdleReader]
    /\ walk = IdleWalk
    /\ ret = [op |-> op, args |-> args]

\* The call of matchSegments on the arguments.
MatchSegments ==
    /\ ret.op = "args:matchSegments"
    /\ ret' = [op |-> "matchSegments", args |-> ret.args,
               ok |-> matchSegments(ret.args.patSegs, ret.args.pathSegs)]
    /\ UNCHANGED <<patterns, errors, readers, walk>>

\* SpecSegments: matchSegments on every list of up to MaxSegs segments and
\* every path of up to MaxComps components.
MaxSegs == 4
MaxComps == 3
SegPool == {DoubleStarSeg, LiteralSeg(<<"a">>), LiteralSeg(<<"b">>)}
CompPool == {<<"a">>, <<"b">>}

InitSegments ==
    \E patSegs \in SeqsUpTo(SegPool, MaxSegs),
       pathSegs \in SeqsUpTo(CompPool, MaxComps) :
        Args("args:matchSegments", [patSegs |-> patSegs, pathSegs |-> pathSegs])

NextSegments == MatchSegments

SpecSegments == InitSegments /\ [][NextSegments]_vars

\* The call of matchSegment on the arguments.
MatchSegment ==
    /\ ret.op = "args:matchSegment"
    /\ ret' = [op |-> "matchSegment", args |-> ret.args,
               ok |-> matchSegment(ret.args.glob, ret.args.text)]
    /\ UNCHANGED <<patterns, errors, readers, walk>>

\* SpecGlob: matchSegment on every glob of up to MaxGlob bytes and every
\* path component of up to MaxText bytes.
MaxGlob == 4
MaxText == 3
GlobBytes == {"a", "*", "?", "\\", "[", "]"}
TextBytes == {"a", "*", "["}

InitGlob ==
    \E glob \in SeqsUpTo(GlobBytes, MaxGlob), text \in SeqsUpTo(TextBytes, MaxText) :
        Args("args:matchSegment", [glob |-> glob, text |-> text])

NextGlob == MatchSegment

SpecGlob == InitGlob /\ [][NextGlob]_vars

\* The call of trimTrailingSpaces on a scanned line, and the matcher that
\* addPatterns builds from the buffer holding that line.
TrimTrailingSpaces ==
    /\ ret.op = "args:trimTrailingSpaces"
    /\ ret' = [op |-> "trimTrailingSpaces", args |-> ret.args,
               text |-> trimTrailingSpaces(ret.args.s),
               m |-> addPatterns(EmptyMatcher, BufferOf(<<ret.args.s>>, TRUE),
                                 <<>>, <<>>)]
    /\ UNCHANGED <<patterns, errors, readers, walk>>

\* SpecTrim: trimTrailingSpaces on every line of up to MaxLine bytes made
\* of a letter, the space, the backslash and the tab.
MaxLine == 5
LineBytes == {"a", " ", "\\", "\t"}

InitTrim ==
    \E s \in SeqsUpTo(LineBytes, MaxLine) :
        Args("args:trimTrailingSpaces", [s |-> s])

NextTrim == TrimTrailingSpaces

SpecTrim == InitTrim /\ [][NextTrim]_vars

\* The call of matchSegment on a glob and a component, and the message
\* compilePattern returns for the line made of that glob.
MatchUnclosed ==
    /\ ret.op = "args:unclosed"
    /\ ret' = [op |-> "unclosed", args |-> ret.args,
               ok |-> matchSegment(ret.args.glob, ret.args.text),
               errMsg |-> compilePattern(ret.args.glob, <<>>).errMsg]
    /\ UNCHANGED <<patterns, errors, readers, walk>>

\* SpecBracket: globs put together from up to MaxPieces pieces, with and
\* without a closing ']', against components of up to MaxText bytes.
MaxPieces == 4
GlobPieces == {<<"a">>, <<"[">>, <<"]">>, <<"\\">>, <<"[", ":">>, <<":", "]">>}
BracketTextBytes == {"a", "[", ":"}
RECURSIVE Concat(_)
Concat(parts) == IF parts = <<>> THEN <<>> ELSE Head(parts) \o Concat(Tail(parts))

InitBracket ==
    \E glob \in {Concat(ps) : ps \in SeqsUpTo(GlobPieces, MaxPieces)},
       text \in SeqsUpTo(BracketTextBytes, MaxText) :
        Args("args:unclosed", [glob |-> glob, text |-> text])

NextBracket == MatchUnclosed

SpecBracket == InitBracket /\ [][NextBracket]_vars

\* The pattern compilePattern returns for the line made of a glob, and
\* matchSegment on the glob and a component.
CompileAndMatch ==
    /\ ret.op = "args:suffix"
    /\ ret' = [op |-> "suffix", args |-> ret.args,
               c |-> compilePattern(ret.args.glob, <<>>),
               ok |-> matchSegment(ret.args.glob, ret.args.text)]
    /\ UNCHANGED <<patterns, errors, readers, walk>>

\* SpecSuffix: every glob of up to MaxGlob bytes, compiled as a line, and
\* every component of up to MaxText bytes.
SuffixGlobBytes == {"a", "*", "[", "]", "\\"}
SuffixTextBytes == {"a", "*", "]"}

InitSuffix ==
    \E glob \in SeqsUpTo(SuffixGlobBytes, MaxGlob),
       text \in SeqsUpTo(SuffixTextBytes, MaxText) :
        Args("args:suffix", [glob |-> glob, text |-> text])

NextSuffix == CompileAndMatch

SpecSuffix == InitSuffix /\ [][NextSuffix]_vars

\* SpecScope: one pattern line ingested with a scope directory of one or of
\* two components, then one query over the paths of up to MaxScopeDepth
\* components.
MaxScopeDepth == 4
ScopeDA == <<"d", "/", "a">>
ScopeDirs == {ScopeD, ScopeDA}
ScopeComps == {<<"a">>, <<"b">>, <<"d">>}
ScopeSegsPool == SeqsUpTo(ScopeComps, MaxScopeDepth) \ {<<>>}

NextScope ==
    \/ IsFresh /\ \E l \in AnchorLines, dir \in ScopeDirs :
          AddPatterns(BufferOf(<<l>>, TRUE), dir)
    \/ ret.op = "AddPatterns" /\ \E segs \in ScopeSegsPool, d \in BOOLEAN :
          MatchPath(PathOf(segs), d)

SpecScope == Init /\ [][NextScope]_vars

(***************************************************************************)
(* The loops of matchSegment, matchSegments, matchBracket and              *)
(* validateBrackets, one pass per step.  ret.v holds the loop variables,   *)
(* ret.pc the loop the call is in, ret.steps the passes made, ret.backs    *)
(* the backtracks among them and ret.out the value returned.               *)
(***************************************************************************)
\* Bytes of a glob, bytes of a text, pieces of a bracket glob (SpecLoops).
MaxLoopGlob == 3
MaxLoopText == 3
MaxLoopPieces == 3
\* The passes after which the model stops following a call.
MaxSteps == 120

LoopGlobBytes == {"a", "*", "?", "["}
LoopTextBytes == {"a", "b"}
LoopSegPool == {DoubleStarSeg, LiteralSeg(<<"a">>), LiteralSeg(<<"*", "b">>)}
LoopCompPool == {<<"a">>, <<"b">>}
LoopPieces ==
    {<<"a">>, <<"[">>, <<"]">>, <<"\\">>, <<"!">>, <<"-">>, <<"[", ":">>, <<":", "]">>}
LoopBracketGlobs == {Concat(ps) : ps \in SeqsUpTo(LoopPieces, MaxLoopPieces)}

InitLoops ==
    \/ \E glob \in SeqsUpTo(LoopGlobBytes, MaxLoopGlob),
          text \in SeqsUpTo(LoopTextBytes, MaxLoopText) :
          Args("args:loop", [fn |-> "matchSegment", glob |-> glob, text |-> text])
    \/ \E patSegs \in SeqsUpTo(LoopSegPool, MaxLoopGlob),
          pathSegs \in SeqsUpTo(LoopCompPool, MaxLoopText) :
          Args("args:loop", [fn |-> "matchSegments", patSegs |-> patSegs,
                             pathSegs |-> pathSegs])
    \/ \E glob \in LoopBracketGlobs, ch \in {"a", "]"} :
          \E pos \in {i \in 0..(Len(glob) - 1) : glob[i + 1] = "["} :
             Args("args:loop", [fn |-> "matchBracket", glob |-> glob, pos |-> pos,
                                ch |-> ch])
    \/ \E glob \in LoopBracketGlobs :
          Args("args:loop", [fn |-> "validateBrackets", glob |-> glob])

Running(v) ==
    [op |-> "loop", args |-> ret.args, pc |-> "loop", v |-> v,
     steps |-> 0, backs |-> 0]
Pass(pc, v) ==
    [ret EXCEPT !.pc = pc, !.v = v, !.steps = @ + 1]
Backtrack(v) ==
    [ret EXCEPT !.v = v, !.steps = @ + 1, !.backs = @ + 1]
Return(out) ==
    [op |-> "loop", args |-> ret.args, pc |-> "done", v |-> ret.v,
     steps |-> ret.steps + 1, backs |-> ret.backs, out |-> out]

NoBracket == [matched |-> FALSE, pos |-> 0, ok |-> FALSE]

\* The statements before the first loop of each function.
Enter ==
    /\ ret.op = "args:loop"
    /\ ret' =
         CASE ret.args.fn = "matchSegment" ->
                Running([gx |-> 0, tx |-> 0, starGx |-> -1, starTx |-> -1])
           [] ret.args.fn = "matchSegments" ->
                Running([px |-> 0, tx |-> 0, starPx |-> -1, starTx |-> -1])
           [] ret.args.fn = "matchBracket" ->
                LET glob == ret.args.glob
                    i == ret.args.pos + 1
                    negate == glob[i + 1] = "!" \/ glob[i + 1] = "^"
                IN IF i >= Len(glob)
                   THEN [Running([i |-> i]) EXCEPT !.pc = "done"] @@ [out |-> NoBracket]
                   ELSE Running([i |-> IF negate THEN i + 1 ELSE i, negate |-> negate,
                                 matched |-> FALSE, first |-> TRUE])
           [] ret.args.fn = "validateBrackets" ->
                Running([i |-> 0, j |-> 0])
    /\ UNCHANGED <<patterns, errors, readers, walk>>

\* The backtrack that leaves the saved position of the text where it is.
NextStarTx_Stay(starTx) == starTx

\* starTx++
NextStarTx(starTx) == starTx + 1

\* One pass of the loops of matchSegment.
SegmentStep ==
    /\ ret.op = "loop" /\ ret.args.fn = "matchSegment"
    /\ ret.pc # "done" /\ ret.steps < MaxSteps
    /\ \E glob \in {ret.args.glob}, text \in {ret.args.text}, v \in {ret.v} :
         ret' =
           IF ret.pc = "tail"
           THEN IF v.gx < Len(glob) /\ glob[v.gx + 1] = "*"
                THEN Pass("tail", [v EXCEPT !.gx = @ + 1])
                ELSE Return(v.gx = Len(glob))
           ELSE IF ~(v.tx < Len(text)) THEN Pass("tail", v)
           ELSE Only({
             CASE step.k = "go" ->
                    Pass("loop", [v EXCEPT !.gx = step.gx, !.tx = step.tx])
               [] step.k = "star" ->
                    Pass("loop", [v EXCEPT !.starGx = v.gx, !.starTx = v.tx,
                                           !.gx = @ + 1])
               [] OTHER ->
                    IF v.starGx >= 0
                    THEN Backtrack([v EXCEPT !.starTx = NextStarTx(v.starTx),
                                             !.tx = NextStarTx(v.starTx),
                                             !.gx = v.starGx + 1])
                    ELSE Return(FALSE) :
             step \in {SegmentSwitch(glob, text, v.gx, v.tx)}})
    /\ UNCHANGED <<patterns, errors, readers, walk>>

\* One pass of the loops of matchSegments.
SegmentsStep ==
    /\ ret.op = "loop" /\ ret.args.fn = "matchSegments"
    /\ ret.pc # "done" /\ ret.steps < MaxSteps
    /\ \E patSegs \in {ret.args.patSegs}, pathSegs \in {ret.args.pathSegs},
          v \in {ret.v} :
         ret' =
           IF ret.pc = "tail"
           THEN IF ~(v.px < Len(patSegs)) THEN Return(TRUE)
                ELSE IF ~patSegs[v.px + 1].doubleStar THEN Return(FALSE)
                ELSE Pass("tail", [v EXCEPT !.px = @ + 1])
           ELSE IF ~(v.tx < Len(pathSegs)) THEN Pass("tail", v)
           ELSE IF v.px < Len(patSegs) /\ patSegs[v.px + 1].doubleStar
           THEN Pass("loop", [v EXCEPT !.starPx = v.px, !.starTx = v.tx, !.px = @ + 1])
           ELSE IF /\ v.px < Len(patSegs)
                   /\ ~patSegs[v.px + 1].doubleStar
                   /\ matchSegment(patSegs[v.px + 1].raw, pathSegs[v.tx + 1])
           THEN Pass("loop", [v EXCEPT !.px = @ + 1, !.tx = @ + 1])
           ELSE IF v.starPx >= 0
           THEN Backtrack([v EXCEPT !.starTx = @ + 1, !.tx = v.starTx + 1,
                                    !.px = v.starPx + 1])
           ELSE Return(FALSE)
    /\ UNCHANGED <<patterns, errors, readers, walk>>

\* One pass of the loop of matchBracket.
BracketStep ==
    /\ ret.op = "loop" /\ ret.args.fn = "matchBracket"
    /\ ret.pc # "done" /\ ret.steps < MaxSteps
    /\ \E glob \in {ret.args.glob}, ch \in {ret.args.ch}, v \in {ret.v} :
         ret' =
           IF ~(v.i < Len(glob)) THEN Return(NoBracket)
           ELSE IF glob[v.i + 1] = "]" /\ ~v.first
           THEN Return([matched |-> IF v.negate THEN ~v.matched ELSE v.matched,
                        pos |-> v.i + 1, ok |-> TRUE])
           ELSE
             LET i == v.i
                 end == IF glob[i + 1] = "[" /\ i + 1 < Len(glob) /\ glob[i + 2] = ":"
                        THEN findPosixClassEnd(glob, i + 2) ELSE -1
                 esc == glob[i + 1] = "\\" /\ i + 1 < Len(glob)
                 lo  == IF esc THEN glob[i + 2] ELSE glob[i + 1]
                 i1  == IF esc THEN i + 2 ELSE i + 1
                 rng == i1 + 1 < Len(glob) /\ glob[i1 + 1] = "-" /\ glob[i1 + 2] # "]"
                 i2  == i1 + 1
                 hesc == glob[i2 + 1] = "\\" /\ i2 + 1 < Len(glob)
                 hi  == IF hesc THEN glob[i2 + 2] ELSE glob[i2 + 1]
                 i3  == IF hesc THEN i2 + 2 ELSE i2 + 1
             IN IF end >= 0
                THEN Pass("loop", [v EXCEPT !.i = end + 2, !.first = FALSE,
                         !.matched = @ \/ matchPosixClass(Slice(glob, i + 2, end), ch)])
                ELSE IF rng
                THEN Pass("loop", [v EXCEPT !.i = i3, !.first = FALSE,
                         !.matched = @ \/ (Ord(ch) >= Ord(lo) /\ Ord(ch) <= Ord(hi))])
                ELSE Pass("loop", [v EXCEPT !.i = i1, !.first = FALSE,
                         !.matched = @ \/ ch = lo])
    /\ UNCHANGED <<patterns, errors, readers, walk>>

\* One pass of the outer loop of validateBrackets (pc "loop") or of its
\* inner loop (pc "scan").
ValidateStep ==
    /\ ret.op = "loop" /\ ret.args.fn = "validateBrackets"
    /\ ret.pc # "done" /\ ret.steps < MaxSteps
    /\ \E glob \in {ret.args.glob}, v \in {ret.v} :
         ret' =
           IF ret.pc = "scan"
           THEN IF ~(v.j < Len(glob) /\ glob[v.j + 1] # "]")
                THEN IF v.j >= Len(glob)
                     THEN Pass("loop", [v EXCEPT !.i = @ + 1])
                     ELSE Pass("loop", [v EXCEPT !.i = v.j + 1])
                ELSE IF glob[v.j + 1] = "\\" /\ v.j + 1 < Len(glob)
                THEN Pass("scan", [v EXCEPT !.j = @ + 2])
                ELSE
                  LET end == IF /\ glob[v.j + 1] = "[" /\ v.j + 1 < Len(glob)
                                /\ glob[v.j + 2] = ":"
                             THEN findPosixClassEnd(glob, v.j + 2) ELSE -1
                      name == Slice(glob, v.j + 2, end)
                  IN IF end >= 0
                     THEN IF ~validPosixClassName(name)
                          THEN Return(MsgUnknownClass(name))
                          ELSE Pass("scan", [v EXCEPT !.j = end + 2])
                     ELSE Pass("scan", [v EXCEPT !.j = @ + 1])
           ELSE IF ~(v.i < Len(glob)) THEN Return(<<>>)
           ELSE IF glob[v.i + 1] = "\\" /\ v.i + 1 < Len(glob)
           THEN Pass("loop", [v EXCEPT !.i = @ + 2])
           ELSE IF glob[v.i + 1] # "[" THEN Pass("loop", [v EXCEPT !.i = @ + 1])
           ELSE
             LET j0 == v.i + 1
                 j1 == IF j0 < Len(glob) /\ glob[j0 + 1] \in {"!", "^"}
                       THEN j0 + 1 ELSE j0
                 j2 == IF j1 < Len(glob) /\ glob[j1 + 1] = "]" THEN j1 + 1 ELSE j1
             IN Pass("scan", [v EXCEPT !.j = j2])
    /\ UNCHANGED <<patterns, errors, readers, walk>>

\* SpecLoops: a call of one of the four functions, followed pass by pass
\* until it returns; a call that has begun goes on.
NextLoops == Enter \/ SegmentStep \/ SegmentsStep \/ BracketStep \/ ValidateStep

SpecLoops == InitLoops /\ [][NextLoops]_vars /\ WF_vars(NextLoops)

(***************************************************************************)
(* Properties.                                                             *)
(***************************************************************************)
MaxOf(S) == CHOOSE x \in S : \A y \in S : y <= x

\* The query of the last call: Match and MatchDetail take the directory
\* flag from a trailing slash, MatchPath takes it as an argument.
EndsInSlash(path) == path # <<>> /\ path[Len(path)] = "/"
WithoutSlash(path) ==
    IF EndsInSlash(path) THEN SubSeq(path, 1, Len(path) - 1) ELSE path
IsQuery == ret.op \in {"Match", "MatchPath", "MatchDetail"}
QueryPath == IF ret.op = "MatchPath" THEN ret.path ELSE WithoutSlash(ret.path)
QueryIsDir == IF ret.op = "MatchPath" THEN ret.isDir ELSE EndsInSlash(ret.path)

\* The patterns that match a path: those the loop of match does not skip.
Hits(pathSegs, isDir) ==
    {i \in 1..Len(patterns) : PatternHits(patterns[i], pathSegs, isDir)}
QueryHits == Hits(Split(QueryPath), QueryIsDir)

\* C1: last-match-wins.  When at least one pattern matches the queried path,
\* Match and MatchPath return the negation of the negate flag of the
\* matching pattern that was appended latest, whatever the earlier matching
\* patterns say.
LastMatchWins ==
    ret.op \in {"Match", "MatchPath"} /\ QueryHits # {} =>
        ret.ignored = ~patterns[MaxOf(QueryHits)].negate

\* Two patterns of different ingestion calls match the query with opposite
\* negate flags, and the later one decided.
WitnessLastMatchWins ==
    /\ ret.op \in {"Match", "MatchPath"}
    /\ \E i, j \in QueryHits :
          /\ i < j
          /\ patterns[i].negate # patterns[j].negate
          /\ patterns[i].line >= patterns[j].line
          /\ patterns[i].prefix # patterns[j].prefix
          /\ ret.ignored = ~patterns[j].negate

\* C7: match and matchDetail agree.  The boolean Match and MatchPath return
\* is the Ignored field matchDetail returns for the same query, and
\* matchDetail returns Matched = FALSE, with every other field zero, exactly
\* when no pattern matches.
MatchAgreesWithDetail ==
    /\ ret.op \in {"Match", "MatchPath"} =>
          ret.ignored = matchDetail(Matcher, QueryPath, QueryIsDir).Ignored
    /\ ret.op = "MatchDetail" =>
          /\ ret.detail.Ignored = match(Matcher, QueryPath, QueryIsDir)
          /\ ret.detail.Matched <=> QueryHits # {}
          /\ ~ret.detail.Matched =>
                /\ ~ret.detail.Ignored
                /\ ret.detail.Pattern = <<>>
                /\ ret.detail.Source = <<>>
                /\ ret.detail.Line = 0
                /\ ~ret.detail.Negate

\* MatchDetail found a negated pattern: matched, and not ignored.
WitnessMatchAgreesWithDetail ==
    /\ ret.op = "MatchDetail"
    /\ ret.detail.Matched
    /\ ~ret.detail.Ignored
    /\ Cardinality(QueryHits) > 1

\* C8: the two directory conventions agree.  Match(p + "/") is
\* MatchPath(p, TRUE); for p without a trailing slash Match(p) is
\* MatchPath(p, FALSE); MatchDetail reads the trailing slash as Match does.
ConventionsAgree ==
    /\ ret.op = "MatchPath" /\ ret.isDir =>
          MatchOf(Matcher, ret.path \o <<"/">>) = ret.ignored
    /\ ret.op = "MatchPath" /\ ~ret.isDir /\ ~EndsInSlash(ret.path) =>
          MatchOf(Matcher, ret.path) = ret.ignored
    /\ ret.op = "Match" =>
          ret.ignored = MatchPathOf(Matcher, WithoutSlash(ret.path), EndsInSlash(ret.path))
    /\ ret.op = "MatchDetail" =>
          /\ ret.detail = matchDetail(Matcher, WithoutSlash(ret.path), EndsInSlash(ret.path))
          /\ ret.detail.Ignored = MatchOf(Matcher, ret.path)

\* A query on which the flag decides: the directory is ignored, the file of
\* the same name is not.
WitnessConventionsAgree ==
    /\ ret.op = "Match"
    /\ EndsInSlash(ret.path)
    /\ ret.ignored
    /\ ~MatchPathOf(Matcher, WithoutSlash(ret.path), FALSE)

\* The matcher holds exactly one pattern, which is not negated.
SinglePattern == Len(patterns) = 1 /\ ~patterns[1].negate

\* The path x appended beneath the path p.
Beneath(p, x) == p \o <<"/">> \o PathOf(x)

\* C2: descendant coverage of a pattern without a trailing slash.  With a
\* single non-negated pattern that is not directory-only, when
\* match(p, is_dir) is true then match(p/x, flag) is true for every x of one
\* or more components and both flags.
DescendantCoverage ==
    ret.op = "MatchPath" /\ SinglePattern /\ ~patterns[1].dirOnly /\ ret.ignored =>
        \A x \in PathSegs, flag \in BOOLEAN :
            match(Matcher, Beneath(ret.path, x), flag)

\* C3: a directory-only pattern covers the directory's contents.  With a
\* single non-negated directory-only pattern, when match(d, TRUE) is true
\* then match(d/x, flag) is true for every x beneath d and both flags, also
\* when x has the name of the directory.
DirOnlyCoversContents ==
    ret.op = "MatchPath" /\ SinglePattern /\ patterns[1].dirOnly
        /\ ret.isDir /\ ret.ignored =>
        \A x \in PathSegs, flag \in BOOLEAN :
            match(Matcher, Beneath(ret.path, x), flag)

\* C4: scope confinement.  When every pattern was ingested with the
\* non-empty scope d, match is true only for paths that start with d/; the
\* path d itself is never reported ignored.
ScopeConfinement ==
    ret.op = "MatchPath" /\ patterns # <<>> /\ ret.ignored
        /\ (\A i \in 1..Len(patterns) : patterns[i].prefix = ScopeD) =>
        HasPrefix(ret.path, ScopeD \o <<"/">>)

\* C5: directory-only containment.  With only non-negated directory-only
\* patterns of empty scope, when match(p, FALSE) is true then match(q, TRUE)
\* is true for some non-empty proper prefix q of p, taken on components.
DirOnlyContainment ==
    ret.op = "MatchPath" /\ patterns # <<>> /\ ~ret.isDir /\ ret.ignored
        /\ (\A i \in 1..Len(patterns) :
               /\ patterns[i].dirOnly
               /\ ~patterns[i].negate
               /\ patterns[i].prefix = <<>>) =>
        LET segs == Split(ret.path)
        IN \E k \in 1..(Len(segs) - 1) :
              match(Matcher, PathOf(SubSeq(segs, 1, k)), TRUE)

\* The line with its leading '!' toggled: removed where present, added
\* where absent.
ToggleLine(text) ==
    IF text # <<>> /\ text[1] = "!" THEN Tail(text) ELSE <<"!">> \o text

\* The matcher built from the toggled pattern lines of the present one.
\* SpecToggle ingests no rejected line, so the texts of the patterns are the
\* pattern lines of the buffer, in order.
ToggledMatcher ==
    addPatterns(EmptyMatcher,
                BufferOf([i \in 1..Len(patterns) |-> ToggleLine(patterns[i].text)], TRUE),
                <<>>, <<>>)

\* The two matchers answer the last query as negation symmetry requires.
SymmetricAnswers ==
    LET other == match(ToggledMatcher, ret.path, ret.isDir)
    IN IF QueryHits # {}
       THEN other = ~ret.ignored
       ELSE ~other /\ ~ret.ignored

\* A pattern line whose toggled form is read as something else than the
\* same pattern with the other sign: after the leading '!' comes another
\* '!' (a second negation) or a '#' (a comment).
TogglesCleanly(text) ==
    ~(Len(text) >= 2 /\ text[1] = "!" /\ text[2] \in {"!", "#"})

\* C6 as stated: negation symmetry.  For any list of pattern lines and the
\* list with every leading '!' toggled, the two matchers return opposite
\* results when some pattern of the original list matches the path, and
\* both return false when none does.
NegationSymmetryAnyList ==
    ret.op = "MatchPath" => SymmetricAnswers

\* C6: negation symmetry holds for the lists in which no pattern line
\* begins with "!!" or "!#": the two matchers return opposite results when
\* some pattern matches the path, and both return false when none does.
NegationSymmetry ==
    ret.op = "MatchPath"
        /\ (\A i \in 1..Len(patterns) : TogglesCleanly(patterns[i].text)) =>
        SymmetricAnswers

\* Two patterns of opposite sign both match, the answer is "ignored" and the
\* toggled matcher answers "not ignored".
WitnessNegationSymmetry ==
    /\ ret.op = "MatchPath"
    /\ \A i \in 1..Len(patterns) : TogglesCleanly(patterns[i].text)
    /\ Cardinality(QueryHits) = 2
    /\ patterns[1].negate /\ ~patterns[2].negate
    /\ ret.ignored
    /\ ~match(ToggledMatcher, ret.path, ret.isDir)

\* The last call was an ingestion that read a buffer; ret.np and ret.ne are
\* the lengths of the two lists before the call.
IsIngestCall == ret.op \in {"AddPatterns", "AddFromFile"} /\ ret.data # <<>>
BufferLines == ScanLines(ret.data)
LineText(k) == trimTrailingSpaces(BufferLines[k])
NewPatternsAt(k) == {i \in (ret.np + 1)..Len(patterns) : patterns[i].line = k}
NewErrorsAt(k) == {i \in (ret.ne + 1)..Len(errors) : errors[i].Line = k}

\* The twelve class names of POSIX, written out.
KnownClassNames ==
    {<<"a", "l", "n", "u", "m">>, <<"a", "l", "p", "h", "a">>,
     <<"b", "l", "a", "n", "k">>, <<"c", "n", "t", "r", "l">>,
     <<"d", "i", "g", "i", "t">>, <<"g", "r", "a", "p", "h">>,
     <<"l", "o", "w", "e", "r">>, <<"p", "r", "i", "n", "t">>,
     <<"p", "u", "n", "c", "t">>, <<"s", "p", "a", "c", "e">>,
     <<"u", "p", "p", "e", "r">>, <<"x", "d", "i", "g", "i", "t">>}

\* The names n that a text writes as [:n:] and that are no POSIX class.
UnknownClassNames(text) ==
    {n \in {SubSeq(text, i + 2, j - 1) :
                i \in 1..Len(text), j \in 1..Len(text)} :
        /\ n \notin KnownClassNames
        /\ \E i \in 1..Len(text) :
              /\ i + Len(n) + 3 <= Len(text)
              /\ SubSeq(text, i, i + 1) = <<"[", ":">>
              /\ SubSeq(text, i + 2, i + 1 + Len(n)) = n
              /\ SubSeq(text, i + 2 + Len(n), i + 3 + Len(n)) = <<":", "]">>
              /\ \A q \in 1..(Len(n) - 1) : SubSeq(n, q, q + 1) # <<":", "]">>}

\* A line that is neither blank nor a comment.
IsPatternLine(text) == text # <<>> /\ text[1] # "#"

\* A pattern line with nothing left once the '!' and the slashes are taken.
ReducesToEmpty(text) ==
    /\ IsPatternLine(text)
    /\ (IF text[1] = "!" THEN Tail(text) ELSE text) \in {<<>>, <<"/">>, <<"/", "/">>}

\* The path of the entry called name directly inside the scope directory.
Under(dir, name) == IF dir = <<>> THEN <<name>> ELSE Split(dir) \o <<name>>

\* C9: a line whose bracket expression names an unknown POSIX class is not
\* added to the pattern list; the call records exactly one PatternError for
\* it, with the trimmed text, the source, the 1-based line number and a
\* message naming the class.  Ingestion continues: every valid line before
\* and after it yields its pattern, which matches, and the errors of the
\* call are in line order.
UnknownClassRejected ==
    IsIngestCall =>
        /\ \A k \in 1..Len(BufferLines) :
              LET text == LineText(k)
              IN IF UnknownClassNames(text) # {}
                 THEN /\ NewPatternsAt(k) = {}
                      /\ Cardinality(NewErrorsAt(k)) = 1
                      /\ \A i \in NewErrorsAt(k) : \E n \in UnknownClassNames(text) :
                            errors[i] = PatternError(text, ret.source, k, MsgUnknownClass(n))
                 ELSE IsPatternLine(text) /\ ~ReducesToEmpty(text) =>
                      /\ NewErrorsAt(k) = {}
                      /\ Cardinality(NewPatternsAt(k)) = 1
                      /\ \A i \in NewPatternsAt(k) :
                            /\ patterns[i].text = text
                            /\ patterns[i].source = ret.source
                            /\ text = LineA =>
                                  PatternHits(patterns[i], Under(ret.dir, LineA), FALSE)
        /\ \A i, j \in (ret.ne + 1)..Len(errors) :
              i < j => errors[i].Line < errors[j].Line

\* A buffer with a valid line before and after the rejected one: one new
\* error, for line 2, and the patterns of lines 1 and 3.
WitnessUnknownClassRejected ==
    /\ IsIngestCall
    /\ Len(BufferLines) = 3
    /\ UnknownClassNames(LineText(2)) # {}
    /\ LineText(2) # BufferLines[2]
    /\ LineText(1) = LineA /\ LineText(3) = LineA
    /\ Cardinality(NewErrorsAt(2)) = 1
    /\ NewPatternsAt(1) # {} /\ NewPatternsAt(3) # {}
    /\ ret.ne > 0

\* C10 as stated: only unknown POSIX class names surface as errors.  Every
\* entry of the error list comes from a line containing an unknown POSIX
\* class name, and the lines that reduce to an empty pattern ("/", "!",
\* "!/", "//") add no PatternError.
OnlyUnknownClassErrors ==
    /\ \A i \in 1..Len(errors) : UnknownClassNames(errors[i].Pattern) # {}
    /\ IsIngestCall =>
          \A k \in 1..Len(BufferLines) :
              ReducesToEmpty(LineText(k)) => NewErrorsAt(k) = {}

\* C10: two kinds of line surface as errors.  Every entry of the error list
\* comes from a line containing an unknown POSIX class name, with a message
\* naming the class, or from a line that reduces to an empty pattern, with
\* the message "empty pattern"; each line that reduces to an empty pattern
\* adds exactly one PatternError and no pattern.
ErrorsAreClassOrEmpty ==
    /\ \A i \in 1..Len(errors) :
          \/ \E n \in UnknownClassNames(errors[i].Pattern) :
                errors[i].Message = MsgUnknownClass(n)
          \/ /\ ReducesToEmpty(errors[i].Pattern)
             /\ errors[i].Message = MsgEmptyPattern
    /\ IsIngestCall =>
          \A k \in 1..Len(BufferLines) :
              ReducesToEmpty(LineText(k)) =>
                  /\ NewPatternsAt(k) = {}
                  /\ Cardinality(NewErrorsAt(k)) = 1
                  /\ \A i \in NewErrorsAt(k) :
                        errors[i] = PatternError(LineText(k), ret.source, k, MsgEmptyPattern)

\* One call recorded an error of each kind: for "!/" and for a class name.
WitnessErrorsAreClassOrEmpty ==
    /\ IsIngestCall
    /\ \E k \in 1..Len(BufferLines) :
          /\ LineText(k) = <<"!", "/">>
          /\ Cardinality(NewErrorsAt(k)) = 1
    /\ \E i \in (ret.ne + 1)..Len(errors) : UnknownClassNames(errors[i].Pattern) # {}

\* The number a sequence of decimal digits writes.
RECURSIVE ValueOf(_)
ValueOf(ds) ==
    IF ds = <<>> THEN 0
    ELSE 10 * ValueOf(SubSeq(ds, 1, Len(ds) - 1)) + (Ord(ds[Len(ds)]) - Ord("0"))

\* ds is the decimal numeral of n: digits only, no leading zero.
IsDecimalOf(ds, n) ==
    /\ ds # <<>>
    /\ \A i \in 1..Len(ds) : ds[i] \in {"0", "1", "2", "3", "4", "5", "6", "7", "8", "9"}
    /\ Len(ds) > 1 => ds[1] # "0"
    /\ ValueOf(ds) = n

\* ": invalid pattern: <text>: <message>"
InvalidPatternPart(e) == <<": invalid pattern: ">> \o e.Pattern \o <<": ">> \o e.Message

\* str is head, then the numeral of e.Line, then the invalid-pattern part.
HasLineForm(str, head, e) ==
    /\ HasPrefix(str, head)
    /\ HasSuffix(str, InvalidPatternPart(e))
    /\ Len(str) > Len(head) + Len(InvalidPatternPart(e))
    /\ IsDecimalOf(SubSeq(str, Len(head) + 1, Len(str) - Len(InvalidPatternPart(e))),
                   e.Line)

IsTrimmedFormOf(text, raw) ==
    /\ HasPrefix(raw, text)
    /\ \A i \in (Len(text) + 1)..Len(raw) : raw[i] = " "
    /\ text # <<>> /\ text[Len(text)] = " " =>
          Len(text) >= 2 /\ text[Len(text) - 1] = "\\"

\* C12: match provenance.  When MatchDetail reports Matched, the pattern
\* text, source, line and negate it returns are those of the
\* latest-appended pattern that matches the query, and Ignored is the
\* negation of Negate; the text of a pattern is its line as written, with
\* the leading '!' and the trailing '/', without the trailing spaces, and
\* its source and line are those of the call that read it.
MatchProvenance ==
    /\ ret.op = "MatchDetail" /\ ret.detail.Matched =>
          /\ QueryHits # {}
          /\ LET p == patterns[MaxOf(QueryHits)]
             IN /\ ret.detail.Pattern = p.text
                /\ ret.detail.Source = p.source
                /\ ret.detail.Line = p.line
                /\ ret.detail.Negate = p.negate
                /\ ret.detail.Ignored = ~p.negate
    /\ IsIngestCall =>
          \A i \in (ret.np + 1)..Len(patterns) :
              /\ patterns[i].line \in 1..Len(BufferLines)
              /\ IsTrimmedFormOf(patterns[i].text, BufferLines[patterns[i].line])
              /\ patterns[i].source = ret.source
              /\ patterns[i].negate <=> patterns[i].text[1] = "!"

\* MatchDetail returned the later of two matching patterns read from two
\* sources: a negated one whose line was written with trailing spaces.
WitnessMatchProvenance ==
    /\ ret.op = "MatchDetail"
    /\ ret.detail.Matched
    /\ Cardinality(QueryHits) = 2
    /\ \E i, j \in QueryHits : patterns[i].source # patterns[j].source
    /\ ret.detail.Pattern = LineNotA
    /\ ret.detail.Line = 2
    /\ ret.detail.Source = <<>>
    /\ ~ret.detail.Ignored

\* The entries of seq from position from + 1 on.
After(seq, from) == SubSeq(seq, from + 1, Len(seq))

\* The call that read the buffer data with scope dir and source source
\* appended newP and newE: each is in line order, each entry carries the
\* trimmed text of its line and the source, every pattern line of the
\* buffer went to exactly one of the two lists, the compiled ones to newP as
\* compilePattern returned them and the rejected ones to newE.
IsIngestionOf(newP, newE, data, dir, source) ==
    LET lines == ScanLines(data)
        text(k) == trimTrailingSpaces(lines[k])
        linesP == {newP[j].line : j \in 1..Len(newP)}
        linesE == {newE[j].Line : j \in 1..Len(newE)}
    IN /\ \A j \in 1..(Len(newP) - 1) : newP[j].line < newP[j + 1].line
       /\ \A j \in 1..(Len(newE) - 1) : newE[j].Line < newE[j + 1].Line
       /\ linesP \cap linesE = {}
       /\ linesP \cup linesE = {k \in 1..Len(lines) : IsPatternLine(text(k))}
       /\ \A j \in 1..Len(newP) :
             LET c == compilePattern(text(newP[j].line), dir)
             IN /\ c.errMsg = <<>>
                /\ newP[j] = [c.p EXCEPT !.text = text(newP[j].line),
                                         !.source = source, !.line = newP[j].line]
       /\ \A j \in 1..Len(newE) :
             LET c == compilePattern(text(newE[j].Line), dir)
             IN /\ c.errMsg # <<>>
                /\ newE[j] = PatternError(text(newE[j].Line), source, newE[j].Line, c.errMsg)

\* C13: ingestion is append-only and order-preserving.  Every step keeps
\* the patterns and errors that were present, unchanged and in place, and
\* an ingestion call appends after them its compiled lines in line order
\* (its rejected lines to the error list), so that the lists are the
\* concatenation of the calls' lines in call order.
AppendOnly ==
    [][/\ Len(patterns') >= Len(patterns)
       /\ SubSeq(patterns', 1, Len(patterns)) = patterns
       /\ Len(errors') >= Len(errors)
       /\ SubSeq(errors', 1, Len(errors)) = errors
       /\ ret'.op \in {"AddPatterns", "AddFromFile"} =>
             IsIngestionOf(After(patterns', Len(patterns)), After(errors', Len(errors)),
                           ret'.data, ret'.dir, ret'.source)]_vars

\* A later call appended two patterns and an error behind the pattern of an
\* earlier call.
WitnessAppendOnly ==
    /\ ret.op = "AddPatterns"
    /\ ret.np = 1
    /\ Len(patterns) = 3
    /\ Len(errors) = ret.ne + 1
    /\ patterns[1].negate /\ patterns[1].line = 1
    /\ patterns[2].line = 1 /\ patterns[3].line = 3
    /\ errors[Len(errors)].Line = 2

\* The call goroutine r made has returned what the same call returns when
\* it runs alone on the matcher.
ReturnsAsAlone(r) ==
    IF readers[r].op = "match"
    THEN readers[r].ignored = match(Matcher, readers[r].path, readers[r].isDir)
    ELSE readers[r].detail = matchDetail(Matcher, readers[r].path, readers[r].isDir)

\* C14: readers do not interfere.  Match, MatchPath, MatchDetail, Errors
\* and every step of a call of match or matchDetail leave the pattern list
\* and the error list unchanged, and in any interleaving of the calls made
\* after ingestion each call returns what it returns when run alone.
ReadersDoNotInterfere ==
    /\ [](\A r \in Readers : readers[r].pc = "done" => ReturnsAsAlone(r))
    /\ [][(\/ readers' # readers
           \/ ret'.op \in {"Match", "MatchPath", "MatchDetail", "Errors"})
          => patterns' = patterns /\ errors' = errors]_vars

\* The first goroutine has returned from matchDetail with a match while the
\* second is halfway through the loop of match, after a call of Errors.
WitnessReadersDoNotInterfere ==
    /\ ret.op = "Errors"
    /\ Len(patterns) = 2
    /\ readers[1].pc = "done" /\ readers[1].op = "matchDetail"
    /\ readers[1].detail.Matched
    /\ readers[2].pc = "loop" /\ readers[2].op = "match"
    /\ readers[2].i = 0

\* The components S can be split over the segments P: each literal segment
\* takes exactly one component that its glob matches, each ** takes zero or
\* more consecutive components, in order.
RECURSIVE CanSplit(_, _)
CanSplit(P, S) ==
    IF P = <<>> THEN S = <<>>
    ELSE IF Head(P).doubleStar
    THEN \E k \in 0..Len(S) : CanSplit(Tail(P), SubSeq(S, k + 1, Len(S)))
    ELSE /\ S # <<>>
         /\ matchSegment(Head(P).raw, Head(S))
         /\ CanSplit(Tail(P), Tail(S))

\* C15: the segment-level matcher is exact.  matchSegments(P, S) is true
\* exactly when S can be split over P, so the walk that backtracks only to
\* the most recent ** misses no assignment and accepts no invalid one.
SegmentsExact ==
    ret.op = "matchSegments" =>
        (ret.ok <=> CanSplit(ret.args.patSegs, ret.args.pathSegs))

\* A match found only after backtracking to the later of two **: with the
\* segments **, b, **, a against b/b/a the second ** first takes nothing,
\* a fails on the second b, and the ** then absorbs it.
WitnessSegmentsExact ==
    /\ ret.op = "matchSegments"
    /\ ret.args.patSegs = <<DoubleStarSeg, LiteralSeg(<<"b">>), DoubleStarSeg,
                            LiteralSeg(<<"a">>)>>
    /\ ret.args.pathSegs = <<<<"b">>, <<"b">>, <<"a">>>>
    /\ ret.ok

\* The text from byte tx on can be consumed by the glob from byte gx on:
\* '\X' takes the byte X, '?' one byte, '*' any number of bytes, a bracket
\* expression one byte that belongs to it, a '[' that opens no bracket
\* expression and any other byte take themselves.
RECURSIVE Consumes(_, _, _, _)
Consumes(g, gx, t, tx) ==
    IF gx = Len(g) THEN tx = Len(t)
    ELSE IF g[gx + 1] = "*"
    THEN \E k \in tx..Len(t) : Consumes(g, gx + 1, t, k)
    ELSE IF tx = Len(t) THEN FALSE
    ELSE IF g[gx + 1] = "\\" /\ gx + 1 < Len(g)
    THEN t[tx + 1] = g[gx + 2] /\ Consumes(g, gx + 2, t, tx + 1)
    ELSE IF g[gx + 1] = "?"
    THEN Consumes(g, gx + 1, t, tx + 1)
    ELSE IF g[gx + 1] = "["
    THEN LET br == matchBracket(g, gx, t[tx + 1])
         IN IF br.ok
            THEN br.matched /\ Consumes(g, br.pos, t, tx + 1)
            ELSE t[tx + 1] = "[" /\ Consumes(g, gx + 1, t, tx + 1)
    ELSE t[tx + 1] = g[gx + 1] /\ Consumes(g, gx + 1, t, tx + 1)

\* C16: the character-level matcher is exact.  matchSegment(g, t) is true
\* exactly when t can be consumed left to right by g with every split
\* tried for every '*', so the single saved backtrack point loses nothing.
SegmentExact ==
    ret.op = "matchSegment" =>
        (ret.ok <=> Consumes(ret.args.glob, 0, ret.args.text, 0))

\* A match found only after backtracking: *[a] against a*a, where the
\* bracket first takes the leading a and the '*' then has to absorb two
\* bytes.
WitnessSegmentExact ==
    /\ ret.op = "matchSegment"
    /\ ret.args.glob = <<"*", "[", "a", "]">>
    /\ ret.args.text = <<"a", "*", "a">>
    /\ ret.ok

\* The pattern line without its sign, and the sign.
Unsigned(text) == IF text # <<>> /\ text[1] = "!" THEN Tail(text) ELSE text
SignOf(text) == IF text # <<>> /\ text[1] = "!" THEN <<"!">> ELSE <<>>

\* The line has no '/' other than a trailing one.
Floats(text) == \A i \in 1..(Len(Unsigned(text)) - 1) : Unsigned(text)[i] # "/"

\* The line has a '/' that is neither its first nor its last byte.
HasMiddleSlash(text) == \E i \in 2..(Len(Unsigned(text)) - 1) : Unsigned(text)[i] = "/"

\* The first segment of an anchored line, as written.
FirstSegment(text) ==
    LET b == Unsigned(text)
    IN Split(IF b[1] = "/" THEN Tail(b) ELSE b)[1]

\* The same line with the leading '/' taken away, or added when it has none.
SlashToggled(text) ==
    LET b == Unsigned(text)
    IN SignOf(text) \o (IF b[1] = "/" THEN Tail(b) ELSE <<"/">> \o b)

\* The components of the scope directory, and those of the last queried
\* path after them.
ScopeSegs == IF patterns[1].prefix = <<>> THEN <<>> ELSE Split(patterns[1].prefix)
RelSegs == SubSeq(Split(ret.path), Len(ScopeSegs) + 1, Len(Split(ret.path)))

\* The single pattern matched the last query.
AnchorHit ==
    /\ ret.op = "MatchPath"
    /\ Len(patterns) = 1
    /\ PatternHits(patterns[1], Split(ret.path), ret.isDir)

\* The directory prefixes a matched path is put beneath.
DirPrefixes == SeqsUpTo({<<"a">>, <<"d">>}, MaxAnchorDepth) \ {<<>>}

\* A floating line that matches p matches q/p for every directory prefix q.
FloatsToAnyDepth ==
    AnchorHit /\ Floats(patterns[1].text) =>
        \A q \in DirPrefixes :
            PatternHits(patterns[1], ScopeSegs \o q \o RelSegs, ret.isDir)

\* An anchored line whose first segment is not ** matches only paths whose
\* first component after the scope prefix matches that segment.
AnchoredAtScope ==
    AnchorHit /\ ~Floats(patterns[1].text)
        /\ FirstSegment(patterns[1].text) # <<"*", "*">> =>
        /\ PrefixMatches(Split(ret.path), ScopeSegs)
        /\ RelSegs # <<>>
        /\ matchSegment(FirstSegment(patterns[1].text), RelSegs[1])

\* The line and the line with the leading '/' toggled decide the last query
\* alike.
SameWithOrWithoutSlash ==
    LET other == addPatterns(EmptyMatcher,
                             BufferOf(<<SlashToggled(patterns[1].text)>>, TRUE),
                             patterns[1].prefix, <<>>)
    IN match(other, ret.path, ret.isDir) = ret.ignored

\* The text after the sign and the leading '/' begins with a byte that is
\* read the same at the start of a line and after a '/'.
PlainStart(text) ==
    LET b == Unsigned(text)
        c == IF b[1] = "/" THEN Tail(b) ELSE b
    IN c # <<>> /\ c[1] \notin {"#", "!", "/"}

\* C17 as stated: anchoring.  A line with no '/' other than a trailing one
\* floats; a line with a leading or a middle '/' is matched from its scope
\* directory only; and every line with a middle '/' decides alike with and
\* without the leading '/'.
AnchoringAnyLine ==
    /\ FloatsToAnyDepth
    /\ AnchoredAtScope
    /\ ret.op = "MatchPath" /\ Len(patterns) = 1
          /\ HasMiddleSlash(patterns[1].text) => SameWithOrWithoutSlash

\* C17: anchoring.  A line with no '/' other than a trailing one floats; a
\* line with a leading or a middle '/' is matched from its scope directory
\* only; and a line with a middle '/' decides alike with and without the
\* leading '/' when the text after that '/' begins with none of '#', '!'
\* and '/'.
Anchoring ==
    /\ FloatsToAnyDepth
    /\ AnchoredAtScope
    /\ ret.op = "MatchPath" /\ Len(patterns) = 1
          /\ HasMiddleSlash(patterns[1].text)
          /\ PlainStart(patterns[1].text) => SameWithOrWithoutSlash

\* The line a/b scoped to d matched d/a/b, as /a/b does.
WitnessAnchoring ==
    /\ AnchorHit
    /\ patterns[1].text = <<"a", "/", "b">>
    /\ patterns[1].prefix = ScopeD
    /\ ret.path = <<"d", "/", "a", "/", "b">>
    /\ ret.ignored
    /\ SameWithOrWithoutSlash

\* The matcher holds the single pattern of the line "**/".
OnlyDoubleStarDir ==
    /\ ret.op = "MatchPath"
    /\ Len(patterns) = 1
    /\ patterns[1].text = <<"*", "*", "/">>

EndsInUnescapedSpace(t) ==
    /\ t # <<>>
    /\ t[Len(t)] = " "
    /\ ~(Len(t) >= 2 /\ t[Len(t) - 1] = "\\")

\* The longest prefix of the line that does not end in an unescaped SPACE.
LongestTrimmedPrefix(s) ==
    SubSeq(s, 1, MaxOf({k \in 0..Len(s) : ~EndsInUnescapedSpace(SubSeq(s, 1, k))}))

\* The position of the last byte of the line that is not a SPACE, 0 when
\* there is none.
LastNonSpace(s) == MaxOf({0} \cup {k \in 1..Len(s) : s[k] # " "})

\* The texts the compiler was handed: those of the patterns and of the
\* errors of the matcher.
HandedTexts(m) ==
    {m.patterns[i].text : i \in 1..Len(m.patterns)}
        \cup {m.errors[i].Pattern : i \in 1..Len(m.errors)}

\* C19: the trailing-space rule.  The text handed to the compiler is the
\* longest prefix of the line that does not end in an unescaped SPACE;
\* every byte up to the last one that is not a SPACE is kept, tabs and
\* leading spaces included; a kept trailing space still has its backslash
\* before it; and trimming the text again changes nothing.
TrailingSpaceRule ==
    ret.op = "trimTrailingSpaces" =>
        /\ ret.text = LongestTrimmedPrefix(ret.args.s)
        /\ HandedTexts(ret.m) \subseteq {ret.text}
        /\ ret.text # <<>> /\ ret.text[1] # "#" => HandedTexts(ret.m) = {ret.text}
        /\ Len(ret.text) >= LastNonSpace(ret.args.s)
        /\ ret.text = SubSeq(ret.args.s, 1, Len(ret.text))
        /\ ret.text # <<>> /\ ret.text[Len(ret.text)] = " " =>
              Len(ret.text) >= 2 /\ ret.text[Len(ret.text) - 1] = "\\"
        /\ trimTrailingSpaces(ret.text) = ret.text

\* A line with a leading space, a tab, an escaped space and two trailing
\* spaces: only the two trailing spaces are removed.
WitnessTrailingSpaceRule ==
    /\ ret.op = "trimTrailingSpaces"
    /\ ret.args.s = <<" ", "\t", "\\", " ", " ">>
    /\ ret.text = <<" ", "\t", "\\", " ">>
    /\ HandedTexts(ret.m) = {ret.text}

\* The positions of the glob where matchSegment starts reading an element:
\* an escape is two bytes, a bracket expression runs to its closing ']',
\* every other element is one byte.
RECURSIVE ElementStarts(_, _)
ElementStarts(glob, gx) ==
    IF ~(gx < Len(glob)) THEN {}
    ELSE {gx} \cup
         (IF glob[gx + 1] = "\\" /\ gx + 1 < Len(glob)
          THEN ElementStarts(glob, gx + 2)
          ELSE IF glob[gx + 1] = "[" /\ matchBracket(glob, gx, "a").ok
          THEN ElementStarts(glob, matchBracket(glob, gx, "a").pos)
          ELSE ElementStarts(glob, gx + 1))

\* The positions of the '[' of the glob that no ']' terminates.
UnclosedAt(glob) ==
    {gx \in ElementStarts(glob, 0) :
        glob[gx + 1] = "[" /\ ~matchBracket(glob, gx, "a").ok}

\* The glob with the '[' at position gx written as '\['.
EscapedAt(glob, gx) ==
    SubSeq(glob, 1, gx) \o <<"\\">> \o SubSeq(glob, gx + 1, Len(glob))

\* The matcher reads an unterminated '[' as it reads '\['.
UnclosedIsLiteral ==
    ret.op = "unclosed" =>
        \A gx \in UnclosedAt(ret.args.glob) :
            ret.ok = matchSegment(EscapedAt(ret.args.glob, gx), ret.args.text)

\* Compiling a line with an unterminated '[' records no error.
UnclosedCompiles ==
    ret.op = "unclosed" /\ UnclosedAt(ret.args.glob) # {} => ret.errMsg = <<>>

\* C20: a '[' with no closing ']' is a literal byte.  For every glob in
\* which a '[' has no terminating ']' and every path component, matchSegment
\* gives the same result as for the glob with that '[' written '\[', and
\* compiling the line made of the glob records no error.
UnclosedBracketLiteral == UnclosedIsLiteral /\ UnclosedCompiles

\* The matcher as it was when the pattern list had n patterns: the list
\* only grows at its end.
MatcherAt(n) == [patterns |-> SubSeq(patterns, 1, n), errors |-> errors]

\* The indices of the log entries of the given kinds.
EventsOf(kinds) == {i \in 1..Len(walk.log) : walk.log[i].kind \in kinds}

\* The length of the pattern list when the entry of event i was visited:
\* for the entry into a directory, the length before its own .gitignore
\* was loaded.
VisitNp(i) ==
    IF walk.log[i].kind = "enter" /\ i > 1 /\ walk.log[i - 1].kind = "load"
    THEN walk.log[i - 1].np
    ELSE walk.log[i].np

\* The entry of event i was ignored when it was visited.
IgnoredWhenVisited(i) ==
    MatchOf(MatcherAt(VisitNp(i)),
            MatchPathOfEntry(walk.log[i].path, walk.log[i].isDir))

\* The directories above a path, nearest last.
DirsAbove(path) ==
    {PathOf(SubSeq(Split(path), 1, k)) : k \in 1..(Len(Split(path)) - 1)}

\* C21: Walk and NewFromDirectory pass to fn, descend into and load the
\* .gitignore of neither the .git directory nor an entry the matcher
\* reports ignored when the entry is visited; every path passed to fn or
\* descended into lies beneath directories that were descended into, so
\* none lies beneath an ignored directory.
WalkSkipsIgnored ==
    \A i \in EventsOf({"fn", "enter", "load"}) :
        walk.log[i].path # <<>> =>
            /\ DotGit \notin {Split(walk.log[i].path)[k] :
                                k \in 1..Len(Split(walk.log[i].path))}
            /\ ~IgnoredWhenVisited(i)
            /\ \A q \in DirsAbove(walk.log[i].path) :
                  \E j \in 1..(i - 1) :
                      /\ walk.log[j].kind = "enter"
                      /\ walk.log[j].path = q
                      /\ ~IgnoredWhenVisited(j)

\* A finished Walk of a tree whose root .gitignore ignores the directory a,
\* which holds a .gitignore of its own: b was passed to fn, a was tested
\* and nothing of a was passed, entered or loaded.
WitnessWalkSkipsIgnored ==
    /\ walk.pc = "done" /\ walk.hasFn /\ ~walk.err
    /\ walk.fs.ignore[1] = FileOf(<<LineADir>>)
    /\ walk.fs.ignore[2].exists
    /\ \E i \in EventsOf({"test"}) : walk.log[i].path = <<"a">>
    /\ \E i \in EventsOf({"fn"}) : walk.log[i].path = <<"b">>
    /\ \A i \in EventsOf({"fn", "enter", "load"}) :
          ~HasPrefix(walk.log[i].path, <<"a">>)

\* The sources of New, lowest priority first.
NewSources == <<GlobalPath, ExcludePath, IgnorePathAt(0)>>

\* The patterns of source number k that match the last query.
SourceHits(k) == {i \in QueryHits : patterns[i].source = NewSources[k]}

\* The source whose pattern has to decide the last query: the one of
\* highest priority that has a matching pattern, 0 when none has.
DecidingSource == MaxOf({0} \cup {k \in 1..3 : SourceHits(k) # {}})

\* C22: New loads the global excludes file, then .git/info/exclude, then
\* the root .gitignore, each with empty scope: the patterns are in that
\* order in the list, every line of every source that exists is there, and
\* a query matched by several sources gets the decision of the root
\* .gitignore pattern if any, otherwise of the info/exclude pattern,
\* otherwise of the global excludes pattern.
NewPriorityOrder ==
    ret.op = "MatchPath" /\ walk.root = RootDir =>
        /\ \A i \in 1..Len(patterns) :
              /\ patterns[i].prefix = <<>>
              /\ \E k \in 1..3 : patterns[i].source = NewSources[k]
        /\ \A i, j \in 1..Len(patterns) :
              i < j => \E k, l \in 1..3 :
                          /\ k <= l
                          /\ patterns[i].source = NewSources[k]
                          /\ patterns[j].source = NewSources[l]
        /\ \A k \in 1..3 :
              Cardinality({i \in 1..Len(patterns) : patterns[i].source = NewSources[k]})
                  = Len(FileAt(walk.fs, NewSources[k]).lines)
        /\ IF DecidingSource = 0 THEN ~ret.ignored
           ELSE ret.ignored = ~patterns[MaxOf(SourceHits(DecidingSource))].negate

\* All three sources have a pattern that matches a: the global file and the
\* root .gitignore ignore it, info/exclude re-includes it, and the root
\* .gitignore decides.
WitnessNewPriorityOrder ==
    /\ ret.op = "MatchPath" /\ walk.root = RootDir
    /\ ret.path = LineA
    /\ \A k \in 1..3 : SourceHits(k) # {}
    /\ walk.fs.exclude = FileOf(<<LineNotA>>)
    /\ walk.fs.ignore[1] = FileOf(<<LineA>>)
    /\ ret.ignored

\* C23: the invariants of compiled patterns.  Every pattern stored in the
\* matcher has a non-empty segment list (I1), no two adjacent DoubleStar
\* segments (I2), and a DoubleStar as last segment when it is not
\* directory-only (I3).
CompiledInvariants ==
    \A i \in 1..Len(patterns) :
        LET segs == patterns[i].segments
        IN /\ segs # <<>>
           /\ \A k \in 1..(Len(segs) - 1) :
                 ~(segs[k].doubleStar /\ segs[k + 1].doubleStar)
           /\ ~patterns[i].dirOnly => segs[Len(segs)].doubleStar

\* The line "**/**" is stored as the single segment **: the floating **,
\* the two of the line and the implicit trailing one are one segment.
WitnessCompiledInvariants ==
    /\ Len(patterns) = 1
    /\ patterns[1].text = <<"*", "*", "/", "*", "*">>
    /\ patterns[1].segments = <<DoubleStarSeg>>
    /\ ~patterns[1].dirOnly

\* C24: the literal suffix is a true fixed suffix.  For every compiled
\* pattern with a non-empty literalSuffix and every path component, when
\* the last concrete segment of the pattern matches the component under
\* matchSegment the component ends with literalSuffix, also when the last
\* '*' of the segment is escaped or inside a bracket expression.
LiteralSuffixIsSuffix ==
    ret.op = "suffix" /\ ret.c.errMsg = <<>> /\ ret.c.p.literalSuffix # <<>>
        /\ matchSegment(LastConcreteRaw(ret.c.p.segments, Len(ret.c.p.segments) - 1),
                        ret.args.text) =>
        HasSuffix(ret.args.text, ret.c.p.literalSuffix)

\* The number of backslashes that end the text.
RECURSIVE TrailingBackslashes(_)
TrailingBackslashes(t) ==
    IF t # <<>> /\ t[Len(t)] = "\\"
    THEN 1 + TrailingBackslashes(SubSeq(t, 1, Len(t) - 1))
    ELSE 0

\* The text ends in a '/' that no backslash escapes.
EndsInUnescapedSlash(t) ==
    /\ t # <<>>
    /\ t[Len(t)] = "/"
    /\ TrailingBackslashes(SubSeq(t, 1, Len(t) - 1)) % 2 = 0

\* C25 as stated: every stored pattern is directory-only exactly when its
\* line ends in a '/' that no backslash escapes; a line ending in '\/' is
\* not directory-only.
DirOnlyIffUnescapedSlash ==
    \A i \in 1..Len(patterns) :
        patterns[i].dirOnly <=> EndsInUnescapedSlash(patterns[i].text)

\* C25: every stored pattern is directory-only exactly when the last byte
\* of its line is '/', whatever byte precedes it; a line ending in '\/' is
\* directory-only and its last segment ends in the backslash.
DirOnlyIffTrailingSlash ==
    \A i \in 1..Len(patterns) :
        LET t == patterns[i].text
            segs == patterns[i].segments
        IN /\ patterns[i].dirOnly <=> t[Len(t)] = "/"
           /\ Len(t) >= 2 /\ t[Len(t)] = "/" /\ t[Len(t) - 1] = "\\" =>
                 /\ ~segs[Len(segs)].doubleStar
                 /\ HasSuffix(segs[Len(segs)].raw, <<"\\">>)

\* The line a\/ is stored as a directory-only pattern.
WitnessDirOnlyIffTrailingSlash ==
    /\ Len(patterns) = 1
    /\ patterns[1].text = <<"a", "\\", "/">>
    /\ patterns[1].dirOnly

\* The positions of the newlines of a buffer, and its k-th line: the bytes
\* between the newline k - 1 and the newline k, or the end of the buffer.
NewlinesOf(data) == {i \in 1..Len(data) : data[i] = "\n"}
NewlinesUpTo(data, i) == Cardinality({j \in NewlinesOf(data) : j <= i})
LineCount(data) ==
    Cardinality(NewlinesOf(data))
        + (IF data # <<>> /\ data[Len(data)] # "\n" THEN 1 ELSE 0)
LineOf(data, k) ==
    SelectSeq([i \in 1..Len(data) |->
                  IF data[i] # "\n" /\ NewlinesUpTo(data, i) = k - 1
                  THEN <<data[i]>> ELSE <<>>],
              LAMBDA c : c # <<>>)
TrimmedLineOf(data, k) ==
    trimTrailingSpaces(JoinWith(LineOf(data, k), <<>>))

RECURSIVE StructuralLoop(_, _, _, _)
StructuralLoop(pats, pathSegs, isDir, i) ==
    IF i < 0 THEN ZeroResult
    ELSE IF matchPattern(pats[i + 1], pathSegs, isDir) THEN ResultOf(pats[i + 1])
    ELSE StructuralLoop(pats, pathSegs, isDir, i - 1)

StructuralDetail(m, relPath, isDir) ==
    StructuralLoop(m.patterns, Split(relPath), isDir, Len(m.patterns) - 1)

\* C27: the literal-suffix check is a pure optimisation.  For every pattern
\* list and every query, match and matchDetail return what the matcher
\* without the check returns: no pattern whose structural match succeeds is
\* skipped.
FastRejectIsPure ==
    ret.op = "MatchPath" =>
        /\ ret.ignored = StructuralDetail(Matcher, ret.path, ret.isDir).Ignored
        /\ matchDetail(Matcher, ret.path, ret.isDir)
              = StructuralDetail(Matcher, ret.path, ret.isDir)

\* The passes a call may take, from the sizes of its arguments.
StepLimit(args) ==
    CASE args.fn = "matchSegment" -> (Len(args.glob) + 2) * (Len(args.text) + 2)
      [] args.fn = "matchSegments" ->
            (Len(args.patSegs) + 2) * (Len(args.pathSegs) + 2)
      [] args.fn = "matchBracket" -> Len(args.glob) + 1
      [] args.fn = "validateBrackets" -> (Len(args.glob) + 1) * (Len(args.glob) + 2)

\* The value the function returns on the arguments.
ValueOfCall(args) ==
    CASE args.fn = "matchSegment" -> matchSegment(args.glob, args.text)
      [] args.fn = "matchSegments" -> matchSegments(args.patSegs, args.pathSegs)
      [] args.fn = "matchBracket" -> matchBracket(args.glob, args.pos, args.ch)
      [] args.fn = "validateBrackets" -> validateBrackets(args.glob)

\* The size of the text a matching function walks over.
TextSize(args) ==
    IF args.fn = "matchSegment" THEN Len(args.text) ELSE Len(args.pathSegs)

LoopDone == ret.op = "loop" /\ ret.pc = "done"

\* The passes stay within the limit, which the model follows to the end,
\* and the value returned is the function's.
LoopsBounded ==
    ret.op = "loop" =>
        /\ ret.steps <= StepLimit(ret.args)
        /\ StepLimit(ret.args) < MaxSteps
        /\ ret.pc = "done" => ret.out = ValueOfCall(ret.args)

\* A backtrack moves the saved position of the text forward, within the
\* text; every other pass moves a cursor forward and none back.
LoopsAdvance ==
    ret.op = "loop" /\ ret'.op = "loop" /\ ret'.pc # "done" =>
        CASE ret.args.fn \in {"matchSegment", "matchSegments"} ->
               IF ret'.backs > ret.backs
               THEN /\ ret'.v.starTx > ret.v.starTx
                    /\ ret'.v.starTx <= TextSize(ret.args)
                    /\ ret'.v.tx = ret'.v.starTx
               ELSE /\ ret'.v.starTx >= ret.v.starTx
                    /\ ret'.v.tx >= ret.v.tx
                    /\ \/ ret'.pc = "tail" /\ ret.pc = "loop"
                       \/ IF ret.args.fn = "matchSegment"
                          THEN ret'.v.gx > ret.v.gx ELSE ret'.v.px > ret.v.px
          [] ret.args.fn = "matchBracket" -> ret'.v.i > ret.v.i
          [] ret.args.fn = "validateBrackets" ->
               IF ret'.pc = "scan"
               THEN IF ret.pc = "scan" THEN ret'.v.j > ret.v.j /\ ret'.v.i = ret.v.i
                    ELSE ret'.v.j > ret.v.i /\ ret'.v.i = ret.v.i
               ELSE ret'.v.i > ret.v.i

\* C28: termination.  Every call of matchSegment, matchBracket,
\* matchSegments and validateBrackets returns; each backtrack strictly
\* advances the saved star position in the text, and the passes of a call
\* are bounded by the sizes of its arguments.
LoopsTerminate ==
    /\ []LoopsBounded
    /\ [][LoopsAdvance]_vars
    /\ <>LoopDone

\* matchSegment returned true after more than one backtrack.
WitnessLoopsTerminate ==
    /\ LoopDone
    /\ ret.args.fn = "matchSegment"
    /\ ret.backs >= 2
    /\ ret.out = TRUE

\* The matcher that holds the lines of the stored patterns with no scope.
Unscoped ==
    addPatterns(EmptyMatcher,
                BufferOf([i \in 1..Len(patterns) |-> patterns[i].text], TRUE),
                <<>>, <<>>)

\* The scope directory all stored patterns were ingested with.
ScopeOfAll == patterns[1].prefix

\* The queried path lies beneath the scope directory.
QueryBeneathScope ==
    /\ HasPrefix(ret.path, ScopeOfAll \o <<"/">>)
    /\ Len(ret.path) > Len(ScopeOfAll) + 1

\* The queried path with the scope directory and its '/' taken off.
QueryInScope == SubSeq(ret.path, Len(ScopeOfAll) + 2, Len(ret.path))

\* The components of the scope directory lead the queried path.
QueryLedByScope ==
    \/ ret.path = ScopeOfAll
    \/ HasPrefix(ret.path, ScopeOfAll \o <<"/">>)

\* C29: scope is a pure path translation.  A matcher holding a line with
\* the non-empty scope d answers the query (d/p, is_dir), p not empty, as
\* the matcher holding the line with no scope answers (p, is_dir), and it
\* answers false for every path that the components of d do not lead.
ScopeIsTranslation ==
    ret.op = "MatchPath" /\ patterns # <<>> /\ ScopeOfAll # <<>> =>
        /\ QueryBeneathScope =>
              ret.ignored = match(Unscoped, QueryInScope, ret.isDir)
        /\ ~QueryLedByScope => ~ret.ignored

\* The line a/b scoped to d/a ignores d/a/a/b, as the unscoped line
\* ignores a/b.
WitnessScopeIsTranslation ==
    /\ ret.op = "MatchPath"
    /\ Len(patterns) = 1
    /\ patterns[1].text = <<"a", "/", "b">>
    /\ ScopeOfAll = ScopeDA
    /\ ret.path = <<"d", "/", "a", "/", "a", "/", "b">>
    /\ ret.ignored
    /\ match(Unscoped, QueryInScope, ret.isDir)

\* The load events of the .gitignore of the directory rel.
LoadsOf(rel) == {i \in EventsOf({"load"}) : walk.log[i].path = rel}

\* The stored patterns that come from the .gitignore of the directory of
\* depth k.
SourcePatterns(k) == {i \in 1..Len(patterns) : patterns[i].source = IgnorePathAt(k)}

\* The .gitignore of the directory of depth k in the tree of the walk.
IgnoreFileAt(k) == walk.fs.ignore[k + 1]

\* The patterns that matched the entry of the test event t when it was
\* tested.
TestHits(t) ==
    {i \in 1..walk.log[t].np :
        PatternHits(patterns[i], Split(walk.log[t].path), walk.log[t].isDir)}

\* C30: nested precedence in Walk and NewFromDirectory.  The .gitignore of
\* a directory is loaded, scoped to the directory, before any entry of the
\* directory is tested and after those of its ancestors; the .gitignore of
\* a visited directory is loaded exactly once and that of the root is not
\* loaded again by the walk; so among the patterns that match a tested
\* path, the one that decides comes from the deepest .gitignore.
NestedPrecedence ==
    walk.pc \in {"walking", "done"} =>
        /\ LoadsOf(<<>>) = {}
        /\ \A k \in 0..MaxTreeDepth :
              /\ Cardinality(SourcePatterns(k)) <= Len(IgnoreFileAt(k).lines)
              /\ Cardinality(LoadsOf(DirAt(k))) <= 1
              /\ \A i \in SourcePatterns(k) : patterns[i].prefix = DirAt(k)
        /\ \A e \in EventsOf({"enter"}) :
              \E k \in {DepthOf(walk.log[e].path)} :
                 /\ Cardinality(SourcePatterns(k)) = Len(IgnoreFileAt(k).lines)
                 /\ \A i \in SourcePatterns(k) : i <= walk.log[e].np
                 /\ k > 0 /\ IgnoreFileAt(k).exists =>
                       LoadsOf(walk.log[e].path) = {e - 1}
        /\ \A t \in EventsOf({"test"}) :
              /\ \A k \in 0..(DepthOf(walk.log[t].path) - 1) :
                    /\ Cardinality(SourcePatterns(k)) = Len(IgnoreFileAt(k).lines)
                    /\ \A i \in SourcePatterns(k) : i <= walk.log[t].np
              /\ TestHits(t) # {} =>
                    /\ \A h \in TestHits(t) :
                          DepthOf(patterns[h].prefix)
                             <= DepthOf(patterns[MaxOf(TestHits(t))].prefix)
                    /\ MatchOf(MatcherAt(walk.log[t].np),
                               MatchPathOfEntry(walk.log[t].path, walk.log[t].isDir))
                          = ~patterns[MaxOf(TestHits(t))].negate
        /\ \A i, j \in 1..Len(patterns) :
              i < j => DepthOf(patterns[i].prefix) <= DepthOf(patterns[j].prefix)

\* A finished Walk of a tree whose root ignores b, whose directory a takes
\* b back and whose directory a/a ignores it again: a/b was passed to fn, b
\* and a/a/b were not, and three patterns were matched against a/a/b.
WitnessNestedPrecedence ==
    /\ walk.pc = "done" /\ walk.hasFn /\ ~walk.err
    /\ walk.fs.ignore = <<FileOf(<<LineB>>), FileOf(<<LineNotB>>), FileOf(<<LineB>>)>>
    /\ {walk.log[i].path : i \in EventsOf({"fn"})} =
          {<<"a">>, <<"a", "/", "b">>, <<"a", "/", "a">>,
           <<"a", "/", ".", "g", "i", "t", "i", "g", "n", "o", "r", "e">>,
           <<".", "g", "i", "t", "i", "g", "n", "o", "r", "e">>,
           <<"a", "/", "a", "/", ".", "g", "i", "t", "i", "g", "n", "o", "r", "e">>}
    /\ \E t \in EventsOf({"test"}) :
          /\ walk.log[t].path = <<"a", "/", "a", "/", "b">>
          /\ Cardinality(TestHits(t)) = 3

====
